---- MODULE Spec2Model ----
(***************************************************************************)
(* Model of the Sora video generation tools: the standalone script         *)
(* scripts/generate_video.py (strategy chain of main, the three            *)
(* strategies, http_poll) and the web application app.py                   *)
(* (generate_video_sdk and the generate endpoint).                         *)
(*                                                                         *)
(* Python values are modelled as follows.  None is the string NONE; a      *)
(* bytes value is a string of Bytes, the empty bytes value being "".  A    *)
(* text that the code takes apart (the resolution) is a sequence of        *)
(* one-character strings.  An optional integer is <<>> (absent) or <<n>>.  *)
(* Everything the provider, the network and the SDK answer is an input     *)
(* chosen with \E at the step that consumes it.                            *)
(***************************************************************************)
EXTENDS Integers, Sequences, FiniteSets, TLC

VARIABLES
    request,        \* the arguments of the run: prompt, duration, resolution, model
    pc,             \* position of main() of the script
    video_bytes,    \* main's local video_bytes
    video_obj,      \* try_sdk_generate's local video_obj between obtaining and extracting
    ret,            \* what each strategy returned: <<sdk, responses, legacy>>, NOTRUN before
    fatal,          \* per strategy: the verification branch (Fatal classification) was taken
    calls,          \* every provider/network call issued so far, in order
    out,            \* what was printed to stdout, in order
    exit_status,    \* process exit status: <<>> while main runs, then <<n>>
    saved,          \* content of the output file, NONE while not written
    now,            \* the clock, time.time()
    poll_pc,        \* position of http_poll; the value names the return taken
    timeout_seconds,\* http_poll's argument
    poll_interval,  \* http_poll's argument
    deadline,       \* http_poll's local deadline
    hist,           \* the status requests of this poll: start, duration, code, state
    poll_ret,       \* what http_poll returned
    status_url,     \* http_poll's argument
    a_pc,           \* app: position of generate() for each request in flight
    a_req,          \* app: the JSON body of each request
    a_name,         \* app: generate's local name (the video file name)
    a_image_path,   \* app: generate's local input_image_path, NONE when unset
    d_resp,         \* app: the answer to the last DELETE /api/videos/<name>
    a_handle,       \* app: the file object kwargs["input_reference"]: NONE, "open", "closed", "dropped"
    a_calls,        \* app: the create_and_poll calls of each request, in order
    a_extracted,    \* app: what the extraction of generate_video_sdk came to, NOTRUN before
    a_ret,          \* app: generate's local video_bytes, NOTRUN before generate_video_sdk returned
    a_resp,         \* app: the HTTP response of each request
    a_meta,         \* app: generate's local metadata (the dict load_metadata returned)
    files,          \* app: the files of VIDEOS_DIR but metadata.json: path -> content
    metadata_file,  \* app: the dict stored in METADATA_FILE
    n_pc,           \* normalizer: "off", "start", then the file whose functions were called
    n_duration,     \* normalizer: the duration handed to bucket_seconds
    n_resolution,   \* normalizer: the resolution handed to parse_resolution_to_size
    n_seconds,      \* normalizer: what bucket_seconds returned
    n_size,         \* normalizer: what parse_resolution_to_size returned
    c_pc,           \* classification: "off", "start", then the strategy that classified
    c_code,         \* classification: HTTP status code of the failure, 0 when it has none
    c_exc,          \* classification: the exception the SDK raised
    c_data,         \* classification: the parsed body of the legacy error response
    c_fatal,        \* classification: the verification branch was taken
    x_pc,           \* extraction: "off", "start", then the strategy that extracted
    x_in,           \* extraction: the provider result and the answers to the fetches
    x_ret,          \* extraction: what the strategy returned, RAISED for an exception
    x_calls         \* extraction: the calls the strategy issued, in order

----------------------------------------------------------------------------
(* Python values *)

NONE == "None"
NOTRUN == "NotRun"
RAISED == "Raised"

\* bytes values the provider can deliver; "" is the empty bytes value
Bytes == {"", "vidA", "vidB"}

\* Python truthiness of an optional bytes value: None and b"" are falsy
Falsy(b) == b = NONE \/ b = ""

----------------------------------------------------------------------------
(* ParameterNormalizer: bucket_seconds and parse_resolution_to_size *)

Abs(n) == IF n < 0 THEN -n ELSE n

\* the list `allowed` of bucket_seconds
allowed_seconds == <<4, 8, 12>>

\* min() taking the last of the elements with the least key
RECURSIVE MinByKey_LastWins(_, _, _)
MinByKey_LastWins(seq, target, best) ==
    IF seq = <<>> THEN best
    ELSE MinByKey_LastWins(Tail(seq), target,
                           IF Abs(Head(seq) - target) <= Abs(best - target)
                           THEN Head(seq) ELSE best)

\* min(seq, key): the first element of the list with the least key
RECURSIVE MinByKey(_, _, _)
MinByKey(seq, target, best) ==
    IF seq = <<>> THEN best
    ELSE MinByKey(Tail(seq), target,
                  IF Abs(Head(seq) - target) < Abs(best - target)
                  THEN Head(seq) ELSE best)

\* `duration or 4`: an absent or zero duration counts as 4
DurationOr4(duration) ==
    IF duration = <<>> \/ duration[1] = 0 THEN 4 ELSE duration[1]

\* bucket_seconds(duration) -> "4" | "8" | "12"
bucket_seconds(duration) ==
    ToString(MinByKey(Tail(allowed_seconds), DurationOr4(duration),
                      Head(allowed_seconds)))

DigitChars == {"0", "1", "2", "3", "4", "5", "6", "7", "8", "9"}

DigitVal(c) ==
    CASE c = "0" -> 0 [] c = "1" -> 1 [] c = "2" -> 2 [] c = "3" -> 3
      [] c = "4" -> 4 [] c = "5" -> 5 [] c = "6" -> 6 [] c = "7" -> 7
      [] c = "8" -> 8 [] c = "9" -> 9

\* str.lower() on the characters the model uses
LowerChar(c) == IF c = "X" THEN "x" ELSE c
Lower(s) == [i \in 1..Len(s) |-> LowerChar(s[i])]

\* Evaluate v once and hand its value to F (TLC evaluates a set's elements
\* when it builds the set, a definition of a LET at every use)
ValueOf(F(_), v) == CHOOSE r \in {F(t) : t \in {v}} : TRUE

\* "x" in resolution (case-sensitive, asked of the text as given)
HasX(s) == \E i \in 1..Len(s) : s[i] = "x"

\* the places of the separator "x" in s
XPlaces(s) == {i \in 1..Len(s) : s[i] = "x"}

\* the k-th smallest element of a set of numbers
Kth(S, k) == CHOOSE i \in S : Cardinality({j \in S : j <= i}) = k

\* str.split("x"): the list of the parts between the separators
SplitAt(s, xs) ==
    [k \in 1..(Cardinality(xs) + 1) |->
        SubSeq(s,
               IF k = 1 THEN 1 ELSE Kth(xs, k - 1) + 1,
               IF k = Cardinality(xs) + 1 THEN Len(s) ELSE Kth(xs, k) - 1)]
SplitX(s) == ValueOf(LAMBDA xs : SplitAt(s, xs), XPlaces(s))

\* str.strip() of spaces, as int() does before reading the number
Strip(s) ==
    LET kept == {i \in 1..Len(s) : s[i] # " "}
    IN  IF kept = {} THEN <<>>
        ELSE SubSeq(s, CHOOSE i \in kept : \A j \in kept : i <= j,
                       CHOOSE i \in kept : \A j \in kept : j <= i)

\* the value of a sequence of digits, read from the left
RECURSIVE DigitsValue(_, _)
DigitsValue(s, n) ==
    IF n = 0 THEN 0 ELSE 10 * DigitsValue(s, n - 1) + DigitVal(s[n])

\* the digits of an int() literal: digits, single underscores only between digits
WellFormedDigits(s) ==
    /\ s # <<>>
    /\ \A i \in 1..Len(s) : s[i] \in DigitChars \cup {"_"}
    /\ s[1] # "_" /\ s[Len(s)] # "_"
    /\ \A i \in 1..(Len(s) - 1) : ~(s[i] = "_" /\ s[i + 1] = "_")

DropUnderscores(s) == SelectSeq(s, LAMBDA c : c # "_")

\* int() of a stripped text t
ParseStripped(t) ==
    LET signed == t # <<>> /\ Head(t) \in {"+", "-"}
        body == IF signed THEN Tail(t) ELSE t
        value(ds) == [ok |-> TRUE,
                      val |-> IF signed /\ Head(t) = "-"
                              THEN 0 - DigitsValue(ds, Len(ds))
                              ELSE DigitsValue(ds, Len(ds))]
    IN  IF WellFormedDigits(body)
        THEN ValueOf(value, DropUnderscores(body))
        ELSE [ok |-> FALSE, val |-> 0]

\* int(text): [ok |-> TRUE, val |-> n], or [ok |-> FALSE, ...] for ValueError
ParseInt(text) == ValueOf(ParseStripped, Strip(text))

\* the parts read one by one, an unreadable part counting as 1
PartsWH_KeepsWidth(parts) ==
    IF Len(parts) < 2 THEN [w |-> <<>>, h |-> <<>>]
    ELSE [w |-> IF ParseInt(parts[1]).ok THEN <<ParseInt(parts[1]).val>> ELSE <<1>>,
          h |-> IF ParseInt(parts[2]).ok THEN <<ParseInt(parts[2]).val>> ELSE <<1>>]

\* lines 51-55: w, h from the parts of the split, <<>> for None
PartsWH(parts) ==
    LET both(pw, ph) == IF pw.ok /\ ph.ok
                        THEN [w |-> <<pw.val>>, h |-> <<ph.val>>]
                        ELSE [w |-> <<>>, h |-> <<>>]
    IN  IF Len(parts) < 2 THEN [w |-> <<>>, h |-> <<>>]
        ELSE ValueOf(LAMBDA pw : ValueOf(LAMBDA ph : both(pw, ph), ParseInt(parts[2])),
                     ParseInt(parts[1]))

\* a resolution that is not a string (None, a number): isinstance fails
NotAString == <<NONE>>

\* lines 48-55: w, h of the resolution.  resolution is NotAString or
\* a sequence of characters.
ParseWH(resolution) ==
    IF resolution = NotAString \/ ~HasX(resolution) THEN [w |-> <<>>, h |-> <<>>]
    ELSE ValueOf(PartsWH, ValueOf(SplitX, Lower(resolution)))

\* Python truthiness of an optional integer: None and 0 are falsy
TruthyInt(n) == n # <<>> /\ n[1] # 0

SizeStr(cw, ch) == ToString(cw) \o "x" \o ToString(ch)

\* the size made of the width and height as given
SizeOfWH_Raw(wh) ==
    IF TruthyInt(wh.w) /\ TruthyInt(wh.h)
    THEN SizeStr(wh.w[1], wh.h[1])
    ELSE "1280x720"

\* the candidates taken in the opposite order
SizeOfWH_Swapped(wh) ==
    IF TruthyInt(wh.w) /\ TruthyInt(wh.h)
    THEN IF wh.h[1] > wh.w[1] THEN "1280x720" ELSE "720x1280"
    ELSE "1280x720"

\* the largest allowed size that fits the orientation
SizeOfWH_Largest(wh) ==
    IF TruthyInt(wh.w) /\ TruthyInt(wh.h)
    THEN IF wh.h[1] > wh.w[1]
         THEN IF wh.h[1] >= 1792 THEN "1024x1792" ELSE "720x1280"
         ELSE IF wh.w[1] >= 1792 THEN "1792x1024" ELSE "1280x720"
    ELSE "1280x720"

\* parse_resolution_to_size(resolution) -> "WxH"
SizeOfWH(wh) ==
    IF TruthyInt(wh.w) /\ TruthyInt(wh.h)
    THEN LET portrait == wh.h[1] > wh.w[1]
             candidates == IF portrait
                           THEN << <<720, 1280>>, <<1280, 720>> >>
                           ELSE << <<1280, 720>>, <<720, 1280>> >>
         IN  SizeStr(candidates[1][1], candidates[1][2])
    ELSE "1280x720"
parse_resolution_to_size(resolution) == ValueOf(SizeOfWH, ParseWH(resolution))

----------------------------------------------------------------------------
(* Inputs of a run *)

\* text -> sequence of characters, for the resolutions the model feeds in
R640x360 == <<"6", "4", "0", "x", "3", "6", "0">>
R360x640 == <<"3", "6", "0", "x", "6", "4", "0">>
R720X1280 == <<"7", "2", "0", "X", "1", "2", "8", "0">>

\* the command lines the script is run with (argparse: duration is an int,
\* resolution a string, model None unless given)
Requests ==
    { [prompt |-> "a cat", duration |-> 8, resolution |-> R640x360, model |-> NONE],
      [prompt |-> "a cat", duration |-> 6, resolution |-> R360x640, model |-> "sora-2-pro"],
      [prompt |-> "", duration |-> 0, resolution |-> R720X1280, model |-> NONE] }

\* media URLs the provider can name
Urls == {"u1", "u2"}

\* a field of a provider object that may be missing or hold something that is
\* not a string
ABSENT == "absent"
NONSTR == "nonstr"

\* a video object of the SDK: attribute-style object or dict, with or without
\* a (truthy) id, and its url / video_url fields
VideoObj == [shape : {"obj", "dict"}, id : BOOLEAN, url : {ABSENT, NONSTR, "u1"},
             video_url : {ABSENT, NONSTR, "u2"}]

NoObj == [shape |-> "obj", id |-> FALSE, url |-> ABSENT, video_url |-> ABSENT]

\* outcome of an SDK call that yields a video object: it returns obj, or raises
\* an exception whose text may hold "must be verified" and may hold "403"
SdkReturns == [raised : {FALSE}, verified : {FALSE}, has403 : {FALSE}, obj : VideoObj]
SdkRaises == [raised : {TRUE}, verified : BOOLEAN, has403 : BOOLEAN, obj : {NoObj}]
SdkOutcome == SdkReturns \cup SdkRaises

\* outcome of requests.get(url) followed by raise_for_status(): the transport
\* raises, the status is an error, or the body is delivered
GetOutcome ==
    [kind : {"raise", "http_error"}, data : {NONE}] \cup [kind : {"ok"}, data : Bytes]

\* outcome of client.videos.download_content(id): it raises, or returns bytes,
\* a readable stream, a response wrapper with .content, or something else
DownloadOutcome ==
    [kind : {"raise", "other"}, data : {NONE}]
        \cup [kind : {"bytes", "readable", "wrapped"}, data : Bytes]

Call(api, args) == [api |-> api, args |-> args]
NoArgs == [none |-> TRUE]

\* model or "sora-2"
ModelOrDefault(model) == IF model = NONE \/ model = "" THEN "sora-2" ELSE model

----------------------------------------------------------------------------
(* try_sdk_generate, first half: obtain the video object (lines 81-125) *)

\* the keyword arguments of create_and_poll / create
SdkArgs(req) ==
    [model |-> ModelOrDefault(req.model),
     prompt |-> req.prompt,
     seconds |-> bucket_seconds(<<req.duration>>),
     size |-> parse_resolution_to_size(req.resolution)]

\* line 103: the verification (Fatal) test on the text of the exception
IsVerificationError(exc) == exc.verified \/ exc.has403

\* line 119: vid_id of the created job.  The conditional expression binds
\* weaker than `or`, so an object that is not a dict gets None.
CreatedVidId(created) == created.shape = "dict" /\ created.id

\* env: sdk in {"absent", "ctor_raises", "no_videos", "ok"}; cap, create, poll
\* are SdkOutcomes; has_poll tells whether client.videos has poll.
\* args are the keyword arguments SdkArgs(request).
\* Result: returned (the function is over), ret, obj, calls, out, fatal.
SdkObtain(args, env) ==
    LET capCall == <<Call("sdk.create_and_poll", args)>>
        createCall == <<Call("sdk.create", args)>>
        pollCall == <<Call("sdk.poll", NoArgs)>>
        over(cs, o, f) == [returned |-> TRUE, ret |-> NONE, obj |-> NoObj,
                           calls |-> cs, out |-> o, fatal |-> f]
        got(cs, obj) == [returned |-> FALSE, ret |-> NONE, obj |-> obj,
                         calls |-> cs, out |-> <<>>, fatal |-> FALSE]
    IN  CASE env.sdk = "absent" -> over(<<>>, <<>>, FALSE)
          [] env.sdk = "ctor_raises" -> over(<<>>, <<"sdk_failed">>, FALSE)
          [] env.sdk = "no_videos" -> over(<<>>, <<>>, FALSE)
          [] OTHER ->
             IF ~env.cap.raised THEN got(capCall, env.cap.obj)
             ELSE IF IsVerificationError(env.cap)
                  THEN over(capCall, <<"verification_required">>, TRUE)
             ELSE IF env.create.raised
                  THEN over(capCall \o createCall, <<"sdk_failed">>, FALSE)
             ELSE IF CreatedVidId(env.create.obj) /\ env.has_poll
                  THEN IF env.poll.raised
                       THEN over(capCall \o createCall \o pollCall,
                                 <<"sdk_failed">>, FALSE)
                       ELSE got(capCall \o createCall \o pollCall, env.poll.obj)
             ELSE got(capCall \o createCall, env.create.obj)

\* the answers of the SDK that SdkObtain can consume
SdkObtainEnv ==
    [sdk : {"absent", "ctor_raises", "no_videos"}, cap : {CHOOSE o \in SdkRaises : TRUE},
     create : {CHOOSE o \in SdkRaises : TRUE}, has_poll : {FALSE},
     poll : {CHOOSE o \in SdkRaises : TRUE}]
      \cup [sdk : {"ok"}, cap : SdkReturns \cup {o \in SdkRaises : IsVerificationError(o)},
            create : {CHOOSE o \in SdkRaises : TRUE}, has_poll : {FALSE},
            poll : {CHOOSE o \in SdkRaises : TRUE}]
      \cup [sdk : {"ok"}, cap : {o \in SdkRaises : ~IsVerificationError(o)},
            create : SdkOutcome, has_poll : BOOLEAN,
            poll : {o \in SdkOutcome : o.raised => ~o.verified /\ ~o.has403}]

----------------------------------------------------------------------------
(* try_sdk_generate, second half: extract the bytes (lines 127-158) *)

\* the first of url, video_url that holds a string, NONE when neither does
FirstUrl(obj) ==
    IF obj.url \in Urls THEN obj.url
    ELSE IF obj.video_url \in Urls THEN obj.video_url
    ELSE NONE

\* lines 142-155: fetch the first URL field, else return None
SdkUrlFields(obj, get) ==
    LET url == FirstUrl(obj)
    IN  IF url = NONE THEN [ret |-> NONE, calls |-> <<>>, out |-> <<>>]
        ELSE IF get.kind = "ok"
             THEN [ret |-> get.data, calls |-> <<Call("http.get", [url |-> url])>>,
                   out |-> <<>>]
             ELSE [ret |-> NONE, calls |-> <<Call("http.get", [url |-> url])>>,
                   out |-> <<"sdk_failed">>]

\* env: has_download, download (a DownloadOutcome), get (a GetOutcome)
SdkExtract(obj, env) ==
    LET dlCall == <<Call("sdk.download_content", NoArgs)>>
        rest == SdkUrlFields(obj, env.get)
    IN  IF obj.id /\ env.has_download
        THEN IF env.download.kind \in {"bytes", "readable", "wrapped"}
             THEN [ret |-> env.download.data, calls |-> dlCall, out |-> <<>>]
             ELSE [rest EXCEPT !.calls = dlCall \o rest.calls]
        ELSE rest

SdkExtractEnv == [has_download : BOOLEAN, download : DownloadOutcome, get : GetOutcome]

----------------------------------------------------------------------------
(* responses_http_generate (lines 266-339) *)

\* lines 277-294: the video_spec sent, built from the raw request
VideoSpecOf(wh, duration) ==
    LET dims == IF TruthyInt(wh.w) /\ TruthyInt(wh.h) THEN {"width", "height"} ELSE {}
        dur == IF duration > 0 THEN {"duration"} ELSE {}
    IN  [k \in dims \cup dur |->
            CASE k = "width" -> wh.w[1]
              [] k = "height" -> wh.h[1]
              [] k = "duration" -> duration]
VideoSpec(req) == ValueOf(LAMBDA wh : VideoSpecOf(wh, req.duration), ParseWH(req.resolution))

ResponsesArgs(req) ==
    [model |-> ModelOrDefault(req.model), prompt |-> req.prompt,
     video |-> VideoSpec(req), format |-> "mp4"]

\* base64 texts the provider can send, and base64.b64decode of each; "abc" has
\* incorrect padding and makes b64decode raise
B64Texts == {"dmlkQQ==", "dmlkQg==", "abc"}
B64Valid(t) == t \in {"dmlkQQ==", "dmlkQg=="}
b64decode(t) == CASE t = "dmlkQQ==" -> "vidA" [] t = "dmlkQg==" -> "vidB"

\* a content part of output[0]: its type, video.url, and the text found under
\* video.b64 or video.data
Part == [type : {"output_video", "output_text"}, url : {ABSENT, NONSTR, "u1"},
         b64 : {ABSENT} \cup B64Texts]

\* lines 317-339, the loop over the content parts; get answers the one fetch
RECURSIVE ResponsesParts(_, _)
ResponsesParts(parts, get) ==
    LET unknown == [ret |-> NONE, calls |-> <<>>, out |-> <<"responses_unknown_format">>]
    IN  IF parts = <<>> THEN unknown
        ELSE LET part == Head(parts)
             IN  IF part.type # "output_video" THEN ResponsesParts(Tail(parts), get)
                 ELSE IF part.url \in Urls
                      THEN IF get.kind = "ok"
                           THEN [ret |-> get.data,
                                 calls |-> <<Call("http.get", [url |-> part.url])>>,
                                 out |-> <<>>]
                           ELSE [unknown EXCEPT
                                    !.calls = <<Call("http.get", [url |-> part.url])>>]
                 ELSE IF part.b64 # ABSENT
                      THEN IF B64Valid(part.b64)
                           THEN [ret |-> b64decode(part.b64), calls |-> <<>>, out |-> <<>>]
                           ELSE unknown
                 ELSE ResponsesParts(Tail(parts), get)

\* env: post = [kind in {"raise", "resp"}, code, json]; data = the parsed body:
\* a dict or not, and the content parts of its output[0]; get.  ret = RAISED: an exception leaves the function.
responses_http_generate(args, env) ==
    LET postCall == <<Call("responses.post", args)>>
    IN  IF env.post.kind = "raise"
        THEN [ret |-> RAISED, calls |-> postCall, out |-> <<>>]
        ELSE IF env.post.code >= 400
        THEN [ret |-> NONE, calls |-> postCall, out |-> <<"responses_api_error">>]
        ELSE IF ~env.post.json
        THEN [ret |-> RAISED, calls |-> postCall, out |-> <<>>]
        ELSE IF ~env.data.dict
        THEN [ret |-> NONE, calls |-> postCall, out |-> <<"responses_unknown_format">>]
        ELSE LET r == ResponsesParts(env.data.parts, env.get)
             IN  [r EXCEPT !.calls = postCall \o r.calls]

PartSeqs == {<<>>} \cup {<<p>> : p \in Part}
                \cup {<<p, q>> : p \in {x \in Part : x.type = "output_text" \/ x.url = ABSENT},
                                 q \in {x \in Part : x.type = "output_video"}}

AnyGet == CHOOSE g \in GetOutcome : TRUE

NotDict == [dict |-> FALSE, parts |-> <<>>]

ResponsesEnv ==
    [post : {[kind |-> "raise", code |-> 0, json |-> FALSE]}, data : {NotDict},
     get : {AnyGet}]
      \cup [post : [kind : {"resp"}, code : {403, 500}, json : BOOLEAN],
            data : {NotDict}, get : {AnyGet}]
      \cup [post : {[kind |-> "resp", code |-> 200, json |-> FALSE]},
            data : {NotDict}, get : {AnyGet}]
      \cup [post : {[kind |-> "resp", code |-> 200, json |-> TRUE]},
            data : {NotDict} \cup [dict : {TRUE}, parts : PartSeqs], get : GetOutcome]


----------------------------------------------------------------------------
(* http_fallback_generate (lines 186-263), up to the call of http_poll *)

\* lines 198-212: the multipart fields; seconds only for a non-zero duration
LegacyArgs(req) ==
    LET keys == {"model", "prompt", "size"}
                    \cup (IF req.duration # 0 THEN {"seconds"} ELSE {})
    IN  [k \in keys |->
            CASE k = "model" -> ModelOrDefault(req.model)
              [] k = "prompt" -> req.prompt
              [] k = "size" -> parse_resolution_to_size(req.resolution)
              [] k = "seconds" -> bucket_seconds(<<req.duration>>)]

\* status endpoints the provider can name
StatusUrls == {"s1", "s2"}

\* the parsed body of the create response.  kind: "nonjson" (data = None),
\* "empty" (a falsy JSON value), "list" (a truthy value that is no dict),
\* "dict".  For a dict: error in {ABSENT, "nondict", "dict"}, message in
\* {ABSENT, NONSTR, "must be verified", "other"}, and the fields video_url,
\* status_url, poll_url, url.
LegacyData ==
    [kind : {"nonjson", "empty", "list"}, error : {ABSENT}, message : {ABSENT},
     video_url : {ABSENT}, status_url : {ABSENT}, poll_url : {ABSENT}, url : {ABSENT}]
      \cup [kind : {"dict"}, error : {ABSENT, "nondict"}, message : {ABSENT},
            video_url : {ABSENT, NONSTR, "u1"}, status_url : {ABSENT, "s1"},
            poll_url : {ABSENT, "s2"},
            url : {ABSENT, NONSTR, "u2"}]
      \cup [kind : {"dict"}, error : {"dict"},
            message : {ABSENT, NONSTR, "must be verified", "other"},
            video_url : {ABSENT}, status_url : {ABSENT}, poll_url : {ABSENT},
            url : {ABSENT}]

\* lines 224-231: the verification test of the error response.  "crash": the
\* message is no string and the `in` test raises.
LegacyClassify(code, data) ==
    IF data.kind = "dict" /\ data.error # "nondict"
    THEN LET msg == IF data.error = ABSENT THEN ABSENT ELSE data.message
         IN  IF msg = NONSTR THEN "crash"
             ELSE IF msg = "must be verified" \/ code = 403 THEN "fatal"
             ELSE "retryable"
    ELSE "retryable"

\* data.get("status_url") or data.get("poll_url")
StatusUrlOf(data) ==
    IF data.status_url # ABSENT THEN data.status_url
    ELSE IF data.poll_url # ABSENT THEN data.poll_url
    ELSE NONE

\* requests.get(url); raise_for_status(); return content -- not guarded here:
\* an exception leaves http_fallback_generate.  A url that is no string
\* raises before any request is sent.
LegacyDownload(url, get) ==
    IF url = NONSTR THEN [ret |-> RAISED, calls |-> <<>>, out |-> <<>>]
    ELSE [ret |-> IF get.kind = "ok" THEN get.data ELSE RAISED,
          calls |-> <<Call("http.get", [url |-> url])>>, out |-> <<>>]

\* env: post = [kind, code], data (a LegacyData), get.
\* ret = "Poll": http_poll is entered with status_url.
LegacyCreate(args, env) ==
    LET postCall == <<Call("legacy.post", args)>>
        res(r, o, f, su) == [ret |-> r, calls |-> postCall, out |-> o, fatal |-> f,
                             status_url |-> su]
        data == env.data
    IN  IF env.post.kind = "raise" THEN res(RAISED, <<>>, FALSE, NONE)
        ELSE IF env.post.code >= 400
        THEN LET c == LegacyClassify(env.post.code, data)
             IN  IF c = "crash" THEN res(RAISED, <<"http_create_error">>, FALSE, NONE)
                 ELSE IF c = "fatal"
                 THEN res(NONE, <<"http_create_error", "verification_required">>,
                          TRUE, NONE)
                 ELSE res(NONE, <<"http_create_error">>, FALSE, NONE)
        ELSE IF data.kind \in {"nonjson", "empty"}
        THEN res(NONE, <<"http_not_json">>, FALSE, NONE)
        ELSE IF data.kind = "list" THEN res(RAISED, <<>>, FALSE, NONE)
        ELSE IF data.video_url # ABSENT
        THEN LET d == LegacyDownload(data.video_url, env.get)
             IN  [res(d.ret, <<>>, FALSE, NONE) EXCEPT !.calls = postCall \o d.calls]
        ELSE IF StatusUrlOf(data) # NONE
        THEN res("Poll", <<>>, FALSE, StatusUrlOf(data))
        ELSE IF data.url \in Urls
        THEN LET d == LegacyDownload(data.url, env.get)
             IN  [res(d.ret, <<>>, FALSE, NONE) EXCEPT !.calls = postCall \o d.calls]
        ELSE res(NONE, <<"http_unknown_format">>, FALSE, NONE)

LegacyEnv ==
    [post : {[kind |-> "raise", code |-> 0]}, get : {AnyGet},
     data : {CHOOSE d \in LegacyData : d.kind = "nonjson"}]
      \cup [post : [kind : {"resp"}, code : {400, 403}], get : {AnyGet},
            data : {d \in LegacyData : d.kind # "dict" \/ d.error # ABSENT
                                        \/ (d.video_url = ABSENT /\ d.url = ABSENT
                                            /\ StatusUrlOf(d) = NONE)}]
      \cup [post : {[kind |-> "resp", code |-> 200]}, get : GetOutcome,
            data : {d \in LegacyData : d.error = ABSENT}]

\* the download attempted whatever http_poll returned
LegacyAfterPoll_NoTest(url, get) == LegacyDownload(url, get)

\* lines 248-253: after http_poll returned url
LegacyAfterPoll(url, get) ==
    IF url = NONE \/ url = ""
    THEN [ret |-> NONE, calls |-> <<>>, out |-> <<>>]
    ELSE LegacyDownload(url, get)

----------------------------------------------------------------------------
(* Bounds of the model *)

\* largest timeout_seconds and poll_interval http_poll is called with, and the
\* longest a status request takes, in clock ticks
MaxTimeout == 3
MaxInterval == 2
MaxGetTime == 2

\* the defaults main's call of http_poll runs with (600 s and 2.0 s in the
\* source), scaled to clock ticks
ChainPollTimeout == 1
ChainPollInterval == 1

----------------------------------------------------------------------------
(* http_poll (lines 161-183) *)

\* status / state strings of a status payload
StateStrings == {"succeeded", "completed", "done", "failed", "error", "pending",
                 "SUCCEEDED", ""}
StateField == {ABSENT} \cup StateStrings

\* a status payload (a JSON object)
PollPayload == [status : StateField, state : StateField,
                video_url : {ABSENT, "u1"}, url : {ABSENT, "u2"}]

\* Python truthiness of a field that holds a string or is absent (None)
TruthyField(f) == f # ABSENT /\ f # ""

\* EffectiveState that reads the field state only
EffectiveState_StateOnly(data) == data.state

\* data.get("status") or data.get("state")
EffectiveState(data) == IF TruthyField(data.status) THEN data.status ELSE data.state

\* data.get("video_url") or data.get("url")
MediaUrl(data) ==
    IF data.video_url # ABSENT THEN data.video_url
    ELSE IF data.url # ABSENT THEN data.url
    ELSE NONE

\* status codes of a status response; requests follows redirects, yet 304 and
\* other 3xx answers without a Location reach the caller
PollCodes == {200, 304, 404}

\* a status response: the transport raises, or a response arrives whose body
\* is JSON or not
PollResponse ==
    [kind : {"raise"}, code : {0}, json : {FALSE}, data : {CHOOSE d \in PollPayload : TRUE}]
      \cup [kind : {"resp"}, code : PollCodes, json : {FALSE},
            data : {CHOOSE d \in PollPayload : TRUE}]
      \cup [kind : {"resp"}, code : PollCodes, json : {TRUE}, data : PollPayload]

\* PollStep with "done" not taken for a Succeeded status
PollStep_DoneIsPending(resp) ==
    IF resp.kind = "raise" THEN [pc |-> "raised", ret |-> NONE, out |-> <<>>]
    ELSE IF resp.code >= 400
    THEN [pc |-> "ret173", ret |-> NONE, out |-> <<"polling_error">>]
    ELSE IF ~resp.json THEN [pc |-> "raised", ret |-> NONE, out |-> <<>>]
    ELSE IF EffectiveState(resp.data) \in {"succeeded", "completed"}
    THEN [pc |-> "ret177", ret |-> MediaUrl(resp.data), out |-> <<>>]
    ELSE IF EffectiveState(resp.data) \in {"failed", "error"}
    THEN [pc |-> "ret180", ret |-> NONE, out |-> <<"job_failed">>]
    ELSE [pc |-> "sleep", ret |-> NONE, out |-> <<>>]

\* PollStep with only the 5xx answers stopping the poll
PollStep_Only5xxStops(resp) ==
    IF resp.kind = "raise" THEN [pc |-> "raised", ret |-> NONE, out |-> <<>>]
    ELSE IF resp.code >= 500
    THEN [pc |-> "ret173", ret |-> NONE, out |-> <<"polling_error">>]
    ELSE IF ~resp.json THEN [pc |-> "raised", ret |-> NONE, out |-> <<>>]
    ELSE IF EffectiveState(resp.data) \in {"succeeded", "completed", "done"}
    THEN [pc |-> "ret177", ret |-> MediaUrl(resp.data), out |-> <<>>]
    ELSE IF EffectiveState(resp.data) \in {"failed", "error"}
    THEN [pc |-> "ret180", ret |-> NONE, out |-> <<"job_failed">>]
    ELSE [pc |-> "sleep", ret |-> NONE, out |-> <<>>]

\* what one status request leads to: the position http_poll goes to and its
\* return value (lines 170-181)
PollStep(resp) ==
    IF resp.kind = "raise" THEN [pc |-> "raised", ret |-> NONE, out |-> <<>>]
    ELSE IF resp.code >= 400
    THEN [pc |-> "ret173", ret |-> NONE, out |-> <<"polling_error">>]
    ELSE IF ~resp.json THEN [pc |-> "raised", ret |-> NONE, out |-> <<>>]
    ELSE IF EffectiveState(resp.data) \in {"succeeded", "completed", "done"}
    THEN [pc |-> "ret177", ret |-> MediaUrl(resp.data), out |-> <<>>]
    ELSE IF EffectiveState(resp.data) \in {"failed", "error"}
    THEN [pc |-> "ret180", ret |-> NONE, out |-> <<"job_failed">>]
    ELSE [pc |-> "sleep", ret |-> NONE, out |-> <<>>]

\* what the history keeps of a status request: when it started, how long it
\* took, the status code (0 when the transport raised) and the state read
HistEntry(start, dur, resp) ==
    [start |-> start,
     dur |-> dur,
     code |-> resp.code,
     state |-> IF resp.kind = "raise" THEN "raise"
               ELSE IF ~resp.json THEN "nonjson"
               ELSE EffectiveState(resp.data)]

\* LoopTest letting a request start at the deadline itself
LoopTest_AtDeadline(t, dl) == t <= dl

\* line 169: while time.time() < deadline
LoopTest(t, dl) == t < dl

PollReturned == poll_pc \in {"ret173", "ret177", "ret180", "ret183"}
PollOver == PollReturned \/ poll_pc = "raised"

storeVars == <<d_resp>>
extractVars == <<x_pc, x_in, x_ret, x_calls>>
classVars == <<c_pc, c_code, c_exc, c_data, c_fatal>>
normVars == <<n_pc, n_duration, n_resolution, n_seconds, n_size>>
mainVars == <<request, pc, video_bytes, video_obj, ret, fatal, exit_status, saved>>
pollArgs == <<timeout_seconds, poll_interval, deadline, status_url>>
appVars == <<a_pc, a_req, a_name, a_image_path, a_handle, a_calls, a_extracted, a_ret,
             a_resp, a_meta, files, metadata_file>>

\* lines 169-180: the loop test holds, one status request is made and examined
poll_get ==
    /\ poll_pc = "loop"
    /\ LoopTest(now, deadline)
    /\ \E resp \in PollResponse, d \in 0..MaxGetTime :
          LET step == PollStep(resp)
          IN  /\ now' = now + d
              /\ hist' = Append(hist, HistEntry(now, d, resp))
              /\ calls' = Append(calls, Call("poll.get", [url |-> status_url]))
              /\ poll_pc' = step.pc
              /\ poll_ret' = step.ret
              /\ out' = out \o step.out
    /\ UNCHANGED <<mainVars, pollArgs>>
    /\ UNCHANGED <<appVars, normVars, classVars, extractVars, storeVars>>

\* line 181: time.sleep(poll_interval)
poll_sleep ==
    /\ poll_pc = "sleep"
    /\ now' = now + poll_interval
    /\ poll_pc' = "loop"
    /\ UNCHANGED <<mainVars, pollArgs, hist, calls, poll_ret, out>>
    /\ UNCHANGED <<appVars, normVars, classVars, extractVars, storeVars>>

\* lines 169, 182-183: the loop test fails, the poll timed out
poll_timeout ==
    /\ poll_pc = "loop"
    /\ ~LoopTest(now, deadline)
    /\ poll_pc' = "ret183"
    /\ poll_ret' = NONE
    /\ out' = Append(out, "poll_timed_out")
    /\ UNCHANGED <<mainVars, pollArgs, hist, calls, now>>
    /\ UNCHANGED <<appVars, normVars, classVars, extractVars, storeVars>>

----------------------------------------------------------------------------
(* The web application app.py: generate_video_sdk (lines 85-163) and the    *)
(* generate endpoint (lines 189-269)                                        *)

\* the requests in flight; the development server serves each request in a
\* thread of its own (app.run, line 1049)
Reqs == {"r1", "r2"}

\* the clock does not pass this value while requests are served
MaxAppClock == 1

\* bucket_seconds of app.py (lines 53-57)
app_bucket_seconds(duration) ==
    ToString(MinByKey(Tail(allowed_seconds), DurationOr4(duration),
                      Head(allowed_seconds)))

\* a parse_resolution_to_size of app.py that picks the largest allowed size
app_parse_resolution_to_size_Largest(resolution) ==
    ValueOf(SizeOfWH_Largest, ParseWH(resolution))

\* parse_resolution_to_size of app.py (lines 60-82)
app_parse_resolution_to_size(resolution) == ValueOf(SizeOfWH, ParseWH(resolution))

\* str.strip() on the texts the model uses
strip(text) == IF text = " " THEN "" ELSE text

\* the input_image values a client sends are None, a data URL, or the text
\* "nocomma", for which split(",")[1] raises
ImageDecodes(img) ==
    img \in {"data:image/jpeg;base64,anBnQQ==", "data:image/jpeg;base64,anBnQg=="}
ImageBytes(img) ==
    CASE img = "data:image/jpeg;base64,anBnQQ==" -> "jpgA"
      [] img = "data:image/jpeg;base64,anBnQg==" -> "jpgB"

\* the JSON bodies posted to /api/generate; json = FALSE: request.json is no
\* dict and line 194 raises
AppBodies ==
    { [json |-> TRUE, prompt |-> "a cat", name |-> "a", duration |-> 8,
       resolution |-> R640x360, model |-> "sora-2",
       input_image |-> "data:image/jpeg;base64,anBnQQ=="],
      [json |-> TRUE, prompt |-> "a dog", name |-> "b.mp4", duration |-> 6,
       resolution |-> R360x640, model |-> "sora-2-pro", input_image |-> NONE],
      [json |-> TRUE, prompt |-> "a dog", name |-> "", duration |-> 4,
       resolution |-> R720X1280, model |-> "sora-2",
       input_image |-> "data:image/jpeg;base64,anBnQg=="],
      [json |-> TRUE, prompt |-> " ", name |-> "a", duration |-> 4,
       resolution |-> R640x360, model |-> "sora-2",
       input_image |-> "data:image/jpeg;base64,anBnQQ=="],
      [json |-> TRUE, prompt |-> "a cat", name |-> "a", duration |-> 4,
       resolution |-> R640x360, model |-> "sora-2", input_image |-> "nocomma"],
      [json |-> FALSE, prompt |-> "", name |-> "", duration |-> 4,
       resolution |-> R640x360, model |-> "sora-2", input_image |-> NONE] }

\* the bodies the second of two requests is taken from
SecondBodies == {b \in AppBodies : b.json /\ b.name # "" /\ strip(b.prompt) # ""
                                     /\ b.input_image # "nocomma"}

\* name.endswith(".mp4") on the names the model uses
EndsWithMp4(name) == name \in {"b.mp4"}

\* lines 203-206: the file name of the video
VideoName(name, t) ==
    LET given == IF name = "" THEN "video_" \o ToString(t) ELSE name
    IN  IF EndsWithMp4(given) THEN given ELSE given \o ".mp4"

\* line 217: the path of the temporary reference image
InputImagePath(t) == "input_" \o ToString(t) \o ".jpg"

\* a file system: path -> content
NoFiles == [p \in {} |-> NONE]
Exists(fs, path) == path \in DOMAIN fs
WriteFile(fs, path, content) ==
    [p \in DOMAIN fs \cup {path} |-> IF p = path THEN content ELSE fs[p]]
Unlink(fs, path) == [p \in DOMAIN fs \ {path} |-> fs[p]]

\* a dict: key -> value
EmptyDict == [k \in {} |-> NONE]
DictDel(d, key) == [k \in DOMAIN d \ {key} |-> d[k]]

\* line 23; its entry in files says that the file exists, its content is
\* metadata_file
METADATA_FILE == "metadata.json"
DictPut(d, key, value) == [k \in DOMAIN d \cup {key} |-> IF k = key THEN value ELSE d[k]]

\* a response of the endpoint; NoResponse while the request is being served
Response(code, body, name) == [code |-> code, body |-> body, name |-> name]
NoResponse == Response(0, NONE, NONE)

\* lines 103-114: the keyword arguments of create_and_poll, without the image
AppKwargs(body) ==
    [model |-> body.model,
     prompt |-> strip(body.prompt),
     seconds |-> app_bucket_seconds(<<body.duration>>),
     size |-> app_parse_resolution_to_size(body.resolution),
     input_reference |-> NONE]

\* line 120: kwargs["input_reference"] = the opened image
WithImage(kwargs, content) == [kwargs EXCEPT !.input_reference = content]

\* RetryKwargs that keeps the image
RetryKwargs_KeepsImage(kwargs) == kwargs

\* line 126: kwargs.pop("input_reference", None)
RetryKwargs(kwargs) == [kwargs EXCEPT !.input_reference = NONE]

\* a create_and_poll call: its keyword arguments and whether it returned
AppCall(kwargs, outcome) == [kwargs |-> kwargs, outcome |-> outcome]

\* the video objects and the answers to the extraction that the app's runs meet
AppVideoObj ==
    {o \in VideoObj : o.shape = "obj" /\ o.url # NONSTR /\ o.video_url = ABSENT}
        \cup {[shape |-> "dict", id |-> FALSE, url |-> ABSENT, video_url |-> "u2"]}
AppExtractEnv ==
    [has_download : {TRUE},
     download : {d \in DownloadOutcome : d.kind \in {"bytes", "wrapped"} => d.data = "vidA"},
     get : {[kind |-> "ok", data |-> "vidB"]}]
      \cup [has_download : {FALSE}, download : {CHOOSE d \in DownloadOutcome : TRUE},
            get : {g \in GetOutcome : g.data # "vidB"}]

\* lines 134-160: the extraction of generate_video_sdk.  The download is not
\* guarded on its own: what it raises reaches line 161.  RAISED: an exception
\* was raised and line 161 caught it.
AppExtract(obj, env) ==
    LET url == FirstUrl(obj)
        fields == IF url = NONE THEN NONE
                  ELSE IF env.get.kind = "ok" THEN env.get.data
                  ELSE RAISED
    IN  IF obj.id /\ env.has_download
        THEN IF env.download.kind = "raise" THEN RAISED
             ELSE IF env.download.kind \in {"bytes", "readable", "wrapped"}
             THEN env.download.data
             ELSE fields
        ELSE fields

\* lines 161-163: an exception makes generate_video_sdk return None
ReturnOf(extracted) == IF extracted = RAISED THEN NONE ELSE extracted

AnyExtract == CHOOSE e \in AppExtractEnv : TRUE

\* the answers generate_video_sdk can meet up to its first create_and_poll:
\* sdk in {"absent", "ctor_raises", "no_videos", "ok"}, open_ok (open() of the
\* image), call (raised, or the object returned), ex (the answers to the extraction)
AppSdkEnv ==
    [sdk : {"absent", "ctor_raises", "no_videos"}, open_ok : {TRUE},
     call : {[raised |-> TRUE, obj |-> NoObj]}, ex : {AnyExtract}]
      \cup [sdk : {"ok"}, open_ok : BOOLEAN, call : {[raised |-> TRUE, obj |-> NoObj]},
            ex : {AnyExtract}]
      \cup [sdk : {"ok"}, open_ok : {TRUE}, call : [raised : {FALSE}, obj : AppVideoObj],
            ex : AppExtractEnv]

\* the answers the retry without the image can meet
AppRetryEnv ==
    [call : {[raised |-> TRUE, obj |-> NoObj]}, ex : {AnyExtract}]
      \cup [call : [raised : {FALSE}, obj : AppVideoObj], ex : AppExtractEnv]

\* generate_video_sdk, lines 94-163, up to the point where the call with the
\* image raised (pc = "sdk_retry") or the function returned (pc = "check").
\* image: the content of the image file when it exists, else NONE.
generate_video_sdk(kwargs, image, env) ==
    LET res(p, cs, h, ex, r) == [pc |-> p, calls |-> cs, handle |-> h,
                                 extracted |-> ex, ret |-> r]
        extracted == AppExtract(env.call.obj, env.ex)
    IN  IF env.sdk # "ok" THEN res("check", <<>>, NONE, NOTRUN, NONE)
        ELSE IF image # NONE
        THEN IF ~env.open_ok THEN res("sdk_retry", <<>>, NONE, NOTRUN, NOTRUN)
             ELSE IF env.call.raised
             THEN res("sdk_retry", <<AppCall(WithImage(kwargs, image), "raised")>>,
                      "open", NOTRUN, NOTRUN)
             ELSE res("check", <<AppCall(WithImage(kwargs, image), "returned")>>,
                      "closed", extracted, ReturnOf(extracted))
        ELSE IF env.call.raised
             THEN res("check", <<AppCall(kwargs, "raised")>>, NONE, NOTRUN, NONE)
             ELSE res("check", <<AppCall(kwargs, "returned")>>, NONE,
                      extracted, ReturnOf(extracted))

\* lines 123-127 and 132-163: the call without the image, after the attempt
\* with the image raised
generate_video_sdk_retry(kwargs, env) ==
    LET extracted == AppExtract(env.call.obj, env.ex)
    IN  IF env.call.raised
        THEN [calls |-> <<AppCall(RetryKwargs(kwargs), "raised")>>,
              extracted |-> NOTRUN, ret |-> NONE]
        ELSE [calls |-> <<AppCall(RetryKwargs(kwargs), "returned")>>,
              extracted |-> extracted, ret |-> ReturnOf(extracted)]

scriptVars == <<request, pc, video_bytes, video_obj, ret, fatal, calls, out, exit_status,
                saved, poll_pc, timeout_seconds, poll_interval, deadline, hist, poll_ret,
                status_url>>

\* the request ends with a response
Respond(r, code, body, name) ==
    /\ a_resp' = [a_resp EXCEPT ![r] = Response(code, body, name)]
    /\ a_pc' = [a_pc EXCEPT ![r] = "done"]

\* lines 192-210: read the body, validate the prompt, settle the name
gen_start(r) ==
    /\ a_pc[r] = "start"
    /\ IF ~a_req[r].json
       THEN Respond(r, 500, "exception", NONE) /\ UNCHANGED a_name
       ELSE IF strip(a_req[r].prompt) = ""
       THEN Respond(r, 400, "prompt_required", NONE) /\ UNCHANGED a_name
       ELSE /\ a_name' = [a_name EXCEPT ![r] = VideoName(strip(a_req[r].name), now)]
            /\ a_pc' = [a_pc EXCEPT ![r] = "image"]
            /\ UNCHANGED a_resp
    /\ UNCHANGED <<a_req, a_image_path, a_handle, a_calls, a_extracted, a_ret, a_meta,
                   files, metadata_file, now, scriptVars, normVars, classVars, extractVars, storeVars>>

\* lines 212-223: save the reference image to a temporary file
gen_save_image(r) ==
    /\ a_pc[r] = "image"
    /\ IF a_req[r].input_image # NONE /\ ImageDecodes(a_req[r].input_image)
       THEN /\ files' = WriteFile(files, InputImagePath(now),
                                  ImageBytes(a_req[r].input_image))
            /\ a_image_path' = [a_image_path EXCEPT ![r] = InputImagePath(now)]
       ELSE UNCHANGED <<files, a_image_path>>
    /\ a_pc' = [a_pc EXCEPT ![r] = "sdk"]
    /\ UNCHANGED <<a_req, a_name, a_handle, a_calls, a_extracted, a_ret, a_resp, a_meta,
                   metadata_file, now, scriptVars, normVars, classVars, extractVars, storeVars>>

\* lines 225-233: load_api_key, then generate_video_sdk up to its first
\* create_and_poll and, when that returns, to its end
gen_sdk_call(r) ==
    /\ a_pc[r] = "sdk"
    /\ \E have_key \in BOOLEAN :
          IF ~have_key
          THEN /\ Respond(r, 500, "exception", NONE)
               /\ UNCHANGED <<a_calls, a_handle, a_extracted, a_ret>>
          ELSE \E kwargs \in {AppKwargs(a_req[r])}, env \in AppSdkEnv,
                  image \in {IF a_image_path[r] # NONE /\ Exists(files, a_image_path[r])
                             THEN files[a_image_path[r]] ELSE NONE} :
                  LET g == generate_video_sdk(kwargs, image, env)
                  IN  /\ a_calls' = [a_calls EXCEPT ![r] =  g.calls]
                      /\ a_handle' = [a_handle EXCEPT ![r] = g.handle]
                      /\ a_extracted' = [a_extracted EXCEPT ![r] = g.extracted]
                      /\ a_ret' = [a_ret EXCEPT ![r] = g.ret]
                      /\ a_pc' = [a_pc EXCEPT ![r] = g.pc]
                      /\ UNCHANGED a_resp
    /\ UNCHANGED <<a_req, a_name, a_image_path, a_meta, files, metadata_file, now,
                   scriptVars, normVars, classVars, extractVars, storeVars>>

\* lines 123-127 and on: the call without the image.  Line 126 drops the
\* file object without close(): whether it is closed by the time the function
\* returns is up to the garbage collector.
gen_sdk_retry(r) ==
    /\ a_pc[r] = "sdk_retry"
    /\ a_handle' = [a_handle EXCEPT ![r] = IF @ = "open" THEN "dropped" ELSE @]
    /\ \E kwargs \in {IF a_calls[r] = <<>> THEN AppKwargs(a_req[r])
                      ELSE a_calls[r][1].kwargs}, env \in AppRetryEnv :
          LET g == generate_video_sdk_retry(kwargs, env)
          IN  /\ a_calls' = [a_calls EXCEPT ![r] = @ \o g.calls]
              /\ a_extracted' = [a_extracted EXCEPT ![r] = g.extracted]
              /\ a_ret' = [a_ret EXCEPT ![r] = g.ret]
    /\ a_pc' = [a_pc EXCEPT ![r] = "check"]
    /\ UNCHANGED <<a_req, a_name, a_image_path, a_resp, a_meta, files,
                   metadata_file, now, scriptVars, normVars, classVars, extractVars, storeVars>>

\* lines 235-243: no bytes is a 500; else the video file is written
gen_write(r) ==
    /\ a_pc[r] = "check"
    /\ IF Falsy(a_ret[r])
       THEN Respond(r, 500, "generation_failed", NONE) /\ UNCHANGED files
       ELSE /\ files' = WriteFile(files, a_name[r], a_ret[r])
            /\ a_pc' = [a_pc EXCEPT ![r] = "meta_load"]
            /\ UNCHANGED a_resp
    /\ UNCHANGED <<a_req, a_name, a_image_path, a_handle, a_calls, a_extracted, a_ret,
                   a_meta, metadata_file, now, scriptVars, normVars, classVars, extractVars, storeVars>>

\* line 246 with load_metadata (lines 26-34)
load_metadata(r) ==
    /\ a_pc[r] = "meta_load"
    /\ a_meta' = [a_meta EXCEPT ![r] = IF Exists(files, METADATA_FILE)
                                        THEN metadata_file ELSE EmptyDict]
    /\ a_pc' = [a_pc EXCEPT ![r] = "meta_save"]
    /\ UNCHANGED <<a_req, a_name, a_image_path, a_handle, a_calls, a_extracted, a_ret,
                   a_resp, files, metadata_file, now, scriptVars, normVars, classVars, extractVars, storeVars>>

\* lines 247-254 with save_metadata (lines 37-43)
save_metadata(r) ==
    /\ a_pc[r] = "meta_save"
    /\ metadata_file' =
          DictPut(a_meta[r], a_name[r],
                  [prompt |-> strip(a_req[r].prompt), duration |-> a_req[r].duration,
                   resolution |-> a_req[r].resolution, model |-> a_req[r].model,
                   created |-> now])
    /\ files' = WriteFile(files, METADATA_FILE, "json")
    /\ a_pc' = [a_pc EXCEPT ![r] = "cleanup"]
    /\ UNCHANGED <<a_req, a_name, a_image_path, a_handle, a_calls, a_extracted, a_ret,
                   a_resp, a_meta, now, scriptVars, normVars, classVars, extractVars, storeVars>>

\* line 257: the test before the temporary image is removed; without an
\* image file lines 260-264 answer at once
gen_cleanup(r) ==
    /\ a_pc[r] = "cleanup"
    /\ IF a_image_path[r] # NONE /\ Exists(files, a_image_path[r])
       THEN a_pc' = [a_pc EXCEPT ![r] = "unlink"] /\ UNCHANGED a_resp
       ELSE Respond(r, 200, "success", a_name[r])
    /\ UNCHANGED <<a_req, a_name, a_image_path, a_handle, a_calls, a_extracted, a_ret,
                   a_meta, files, metadata_file, now, scriptVars, normVars, classVars, extractVars, storeVars>>

\* lines 258-264: unlink raises when the file is gone by now (line 265)
gen_unlink(r) ==
    /\ a_pc[r] = "unlink"
    /\ IF Exists(files, a_image_path[r])
       THEN /\ files' = Unlink(files, a_image_path[r])
            /\ Respond(r, 200, "success", a_name[r])
       ELSE /\ Respond(r, 500, "exception", NONE)
            /\ UNCHANGED files
    /\ UNCHANGED <<a_req, a_name, a_image_path, a_handle, a_calls, a_extracted, a_ret,
                   a_meta, metadata_file, now, scriptVars, normVars, classVars, extractVars, storeVars>>

\* the positions at which generate reads the clock (lines 204, 217, 252)
ReadsClock(r) == a_pc[r] \in {"start", "image", "meta_save"}

\* time passes while requests are served; a tick that no request can observe
\* is left out
app_tick ==
    /\ \E r \in Reqs : ReadsClock(r)
    /\ now < MaxAppClock
    /\ now' = now + 1
    /\ UNCHANGED <<appVars, scriptVars, normVars, classVars, extractVars, storeVars>>

\* the answer of delete_video; n tells one answer from the next
DeleteResponse(code, name, n) == [code |-> code, name |-> name, n |-> n]
NoDelete == DeleteResponse(0, NONE, 0)

\* no DELETE request was answered
StoreOff == d_resp = NoDelete

\* the application serves no request
AppOff ==
    /\ a_pc = [r \in Reqs |-> "off"]
    /\ a_req = [r \in Reqs |-> CHOOSE b \in AppBodies : ~b.json]
    /\ a_name = [r \in Reqs |-> NONE]
    /\ a_image_path = [r \in Reqs |-> NONE]
    /\ a_handle = [r \in Reqs |-> NONE]
    /\ a_calls = [r \in Reqs |-> <<>>]
    /\ a_extracted = [r \in Reqs |-> NOTRUN]
    /\ a_ret = [r \in Reqs |-> NOTRUN]
    /\ a_resp = [r \in Reqs |-> NoResponse]
    /\ a_meta = [r \in Reqs |-> EmptyDict]
    /\ files = NoFiles
    /\ metadata_file = EmptyDict

\* the normalizer is not exercised on its own
NormOff ==
    /\ n_pc = "off"
    /\ n_duration = <<>>
    /\ n_resolution = NotAString
    /\ n_seconds = NONE
    /\ n_size = NONE

\* a provider result as a strategy meets it after a successful create call.
\* strategy: the function that extracts.  SDK (script and app.py): obj,
\* has_download, download; for the create-then-poll fallback obj is the
\* created job and has_poll tells whether the client can poll.  Responses: json (the body parses), rdata.
\* Legacy: ldata, polled (what http_poll returned).  get answers the fetch.
NoExtractInput ==
    [strategy |-> "none", obj |-> NoObj, has_poll |-> FALSE, has_download |-> FALSE,
     download |-> [kind |-> "raise", data |-> NONE], json |-> FALSE,
     rdata |-> NotDict, ldata |-> CHOOSE d \in LegacyData : d.kind = "nonjson",
     polled |-> NONE, get |-> AnyGet]

\* no extraction is exercised on its own
ExtractOff ==
    /\ x_pc = "off"
    /\ x_in = NoExtractInput
    /\ x_ret = NOTRUN
    /\ x_calls = <<>>

\* no failure is being classified on its own
ClassOff ==
    /\ c_pc = "off"
    /\ c_code = 0
    /\ c_exc = CHOOSE o \in SdkRaises : TRUE
    /\ c_data = CHOOSE d \in LegacyData : d.kind = "nonjson"
    /\ c_fatal = FALSE

----------------------------------------------------------------------------
(* main of the script (lines 356-392) *)

pollVars == <<now, poll_pc, timeout_seconds, poll_interval, deadline, hist, poll_ret,
              status_url>>

vars == <<request, pc, video_bytes, video_obj, ret, fatal, calls, out, exit_status,
          saved, now, poll_pc, timeout_seconds, poll_interval, deadline, hist,
          poll_ret, status_url, a_pc, a_req, a_name, a_image_path, a_handle, a_calls,
          a_extracted, a_ret, a_resp, a_meta, files, metadata_file, n_pc, n_duration,
          n_resolution, n_seconds, n_size, c_pc, c_code, c_exc, c_data, c_fatal,
          x_pc, x_in, x_ret, x_calls, d_resp>>

SDK == 1
RESPONSES == 2
LEGACY == 3

\* an uncaught exception ends the process with a traceback and status 1
Crash ==
    /\ pc' = "done"
    /\ exit_status' = <<1>>

\* lines 357-358: parse_args, load_api_key; without a key the script exits 2
main_start ==
    /\ pc = "start"
    /\ \E have_key \in BOOLEAN :
          IF have_key
          THEN /\ pc' = "sdk"
               /\ UNCHANGED <<out, exit_status>>
          ELSE /\ pc' = "done"
               /\ out' = Append(out, "missing_api_key")
               /\ exit_status' = <<2>>
    /\ UNCHANGED <<request, video_bytes, video_obj, ret, fatal, calls, saved, pollVars>>
    /\ UNCHANGED <<appVars, normVars, classVars, extractVars, storeVars>>

\* line 362 with try_sdk_generate lines 81-125
main_try_sdk ==
    /\ pc = "sdk"
    /\ \E args \in {SdkArgs(request)}, env \in SdkObtainEnv :
          LET r == SdkObtain(args, env)
          IN  /\ calls' = calls \o r.calls
              /\ out' = out \o r.out
              /\ fatal' = [fatal EXCEPT ![SDK] = r.fatal]
              /\ video_obj' = r.obj
              /\ IF r.returned
                 THEN /\ ret' = [ret EXCEPT ![SDK] = r.ret]
                      /\ video_bytes' = r.ret
                      /\ pc' = "gate2"
                 ELSE /\ pc' = "sdk_extract"
                      /\ UNCHANGED <<ret, video_bytes>>
    /\ UNCHANGED <<request, exit_status, saved, pollVars>>
    /\ UNCHANGED <<appVars, normVars, classVars, extractVars, storeVars>>

\* try_sdk_generate lines 127-158 and the assignment of line 362
main_sdk_extract ==
    /\ pc = "sdk_extract"
    /\ \E env \in SdkExtractEnv :
          LET r == SdkExtract(video_obj, env)
          IN  /\ calls' = calls \o r.calls
              /\ out' = out \o r.out
              /\ ret' = [ret EXCEPT ![SDK] = r.ret]
              /\ video_bytes' = r.ret
    /\ video_obj' = NoObj
    /\ pc' = "gate2"
    /\ UNCHANGED <<request, fatal, exit_status, saved, pollVars>>
    /\ UNCHANGED <<appVars, normVars, classVars, extractVars, storeVars>>

\* line 369: the test that lets the responses strategy run
Gate2(vb) == vb = NONE

\* lines 369-377
main_responses ==
    /\ pc = "gate2"
    /\ IF Gate2(video_bytes)
       THEN \E args \in {ResponsesArgs(request)}, env \in ResponsesEnv :
               LET r == responses_http_generate(args, env)
               IN  /\ calls' = calls \o r.calls
                   /\ out' = out \o r.out
                   /\ ret' = [ret EXCEPT ![RESPONSES] = r.ret]
                   /\ IF r.ret = RAISED
                      THEN Crash /\ UNCHANGED video_bytes
                      ELSE /\ video_bytes' = r.ret
                           /\ pc' = "gate3"
                           /\ UNCHANGED exit_status
       ELSE /\ pc' = "gate3"
            /\ UNCHANGED <<calls, out, ret, video_bytes, exit_status>>
    /\ UNCHANGED <<request, video_obj, fatal, saved, pollVars>>
    /\ UNCHANGED <<appVars, normVars, classVars, extractVars, storeVars>>

\* the third strategy entered whatever the second returned
Gate3_Always(vb) == TRUE

\* line 378: the test that lets the legacy strategy run
Gate3(vb) == vb = NONE

\* lines 378-385 with http_fallback_generate up to its call of http_poll
main_legacy ==
    /\ pc = "gate3"
    /\ IF Gate3(video_bytes)
       THEN \E args \in {LegacyArgs(request)}, env \in LegacyEnv :
               LET r == LegacyCreate(args, env)
               IN  /\ calls' = calls \o r.calls
                   /\ out' = out \o r.out
                   /\ fatal' = [fatal EXCEPT ![LEGACY] = r.fatal]
                   /\ IF r.ret = "Poll"
                      THEN /\ pc' = "legacy_poll"
                           /\ poll_pc' = "loop"
                           /\ status_url' = r.status_url
                           /\ timeout_seconds' = ChainPollTimeout
                           /\ poll_interval' = ChainPollInterval
                           /\ deadline' = now + ChainPollTimeout
                           /\ hist' = <<>>
                           /\ UNCHANGED <<ret, video_bytes, exit_status, poll_ret>>
                      ELSE /\ ret' = [ret EXCEPT ![LEGACY] = r.ret]
                           /\ UNCHANGED <<poll_pc, status_url, timeout_seconds,
                                          poll_interval, deadline, hist, poll_ret>>
                           /\ IF r.ret = RAISED
                              THEN Crash /\ UNCHANGED video_bytes
                              ELSE /\ video_bytes' = r.ret
                                   /\ pc' = "final"
                                   /\ UNCHANGED exit_status
       ELSE /\ pc' = "final"
            /\ UNCHANGED <<calls, out, ret, fatal, video_bytes, exit_status, poll_pc,
                           status_url, timeout_seconds, poll_interval, deadline,
                           hist, poll_ret>>
    /\ UNCHANGED <<request, video_obj, saved, now>>
    /\ UNCHANGED <<appVars, normVars, classVars, extractVars, storeVars>>

\* http_fallback_generate lines 248-253, after http_poll is over
main_legacy_after_poll ==
    /\ pc = "legacy_poll"
    /\ PollOver
    /\ IF poll_pc = "raised"
       THEN /\ ret' = [ret EXCEPT ![LEGACY] = RAISED]
            /\ Crash
            /\ UNCHANGED <<calls, out, video_bytes>>
       ELSE \E get \in GetOutcome :
               LET r == LegacyAfterPoll(poll_ret, get)
               IN  /\ calls' = calls \o r.calls
                   /\ out' = out \o r.out
                   /\ ret' = [ret EXCEPT ![LEGACY] = r.ret]
                   /\ IF r.ret = RAISED
                      THEN Crash /\ UNCHANGED video_bytes
                      ELSE /\ video_bytes' = r.ret
                           /\ pc' = "final"
                           /\ UNCHANGED exit_status
    /\ UNCHANGED <<request, video_obj, fatal, saved, pollVars>>
    /\ UNCHANGED <<appVars, normVars, classVars, extractVars, storeVars>>

\* lines 387-392: exit 3 without bytes, else save_binary and a normal end
main_finish ==
    /\ pc = "final"
    /\ IF Falsy(video_bytes)
       THEN /\ out' = Append(out, "video_generation_failed")
            /\ exit_status' = <<3>>
            /\ UNCHANGED saved
       ELSE /\ saved' = video_bytes
            /\ out' = Append(out, "saved_video")
            /\ exit_status' = <<0>>
    /\ pc' = "done"
    /\ UNCHANGED <<request, video_bytes, video_obj, ret, fatal, calls, pollVars>>
    /\ UNCHANGED <<appVars, normVars, classVars, extractVars, storeVars>>

Init ==
    /\ request \in Requests
    /\ pc = "start"
    /\ video_bytes = NONE
    /\ video_obj = NoObj
    /\ ret = <<NOTRUN, NOTRUN, NOTRUN>>
    /\ fatal = <<FALSE, FALSE, FALSE>>
    /\ calls = <<>>
    /\ out = <<>>
    /\ exit_status = <<>>
    /\ saved = NONE
    /\ now = 0
    /\ poll_pc = "idle"
    /\ timeout_seconds = 0
    /\ poll_interval = 0
    /\ deadline = 0
    /\ hist = <<>>
    /\ poll_ret = NONE
    /\ status_url = NONE
    /\ AppOff
    /\ NormOff
    /\ ClassOff
    /\ ExtractOff
    /\ StoreOff

Next ==
    \/ main_start
    \/ main_try_sdk
    \/ main_sdk_extract
    \/ main_responses
    \/ main_legacy
    \/ poll_get
    \/ poll_sleep
    \/ poll_timeout
    \/ main_legacy_after_poll
    \/ main_finish

\* one run of the script
Spec == Init /\ [][Next]_vars

----------------------------------------------------------------------------
(* http_poll on its own, for every timeout and interval *)

InitPoll ==
    /\ request = CHOOSE r \in Requests : TRUE
    /\ pc = "off"
    /\ video_bytes = NONE
    /\ video_obj = NoObj
    /\ ret = <<NOTRUN, NOTRUN, NOTRUN>>
    /\ fatal = <<FALSE, FALSE, FALSE>>
    /\ calls = <<>>
    /\ out = <<>>
    /\ exit_status = <<>>
    /\ saved = NONE
    /\ now = 0
    /\ poll_pc = "loop"
    /\ timeout_seconds \in 0..MaxTimeout
    /\ poll_interval \in 1..MaxInterval
    /\ deadline = now + timeout_seconds
    /\ hist = <<>>
    /\ poll_ret = NONE
    /\ status_url \in StatusUrls
    /\ AppOff
    /\ NormOff
    /\ ClassOff
    /\ ExtractOff
    /\ StoreOff

NextPoll ==
    \/ poll_get
    \/ poll_sleep
    \/ poll_timeout

SpecPoll == InitPoll /\ [][NextPoll]_vars

----------------------------------------------------------------------------
(* The web application serving two requests at the same time *)

InitApp ==
    /\ request = CHOOSE r \in Requests : TRUE
    /\ pc = "off"
    /\ video_bytes = NONE
    /\ video_obj = NoObj
    /\ ret = <<NOTRUN, NOTRUN, NOTRUN>>
    /\ fatal = <<FALSE, FALSE, FALSE>>
    /\ calls = <<>>
    /\ out = <<>>
    /\ exit_status = <<>>
    /\ saved = NONE
    /\ now = 0
    /\ poll_pc = "idle"
    /\ timeout_seconds = 0
    /\ poll_interval = 0
    /\ deadline = 0
    /\ hist = <<>>
    /\ poll_ret = NONE
    /\ status_url = NONE
    /\ a_pc = [r \in Reqs |-> "start"]
    /\ a_req \in {f \in [Reqs -> AppBodies] : f["r2"] \in SecondBodies}
    /\ a_name = [r \in Reqs |-> NONE]
    /\ a_image_path = [r \in Reqs |-> NONE]
    /\ a_handle = [r \in Reqs |-> NONE]
    /\ a_calls = [r \in Reqs |-> <<>>]
    /\ a_extracted = [r \in Reqs |-> NOTRUN]
    /\ a_ret = [r \in Reqs |-> NOTRUN]
    /\ a_resp = [r \in Reqs |-> NoResponse]
    /\ a_meta = [r \in Reqs |-> EmptyDict]
    /\ files = NoFiles
    /\ metadata_file = EmptyDict
    /\ NormOff
    /\ ClassOff
    /\ ExtractOff
    /\ StoreOff

NextApp ==
    \/ \E r \in Reqs : gen_start(r)
    \/ \E r \in Reqs : gen_save_image(r)
    \/ \E r \in Reqs : gen_sdk_call(r)
    \/ \E r \in Reqs : gen_sdk_retry(r)
    \/ \E r \in Reqs : gen_write(r)
    \/ \E r \in Reqs : load_metadata(r)
    \/ \E r \in Reqs : save_metadata(r)
    \/ \E r \in Reqs : gen_cleanup(r)
    \/ \E r \in Reqs : gen_unlink(r)
    \/ app_tick

SpecApp == InitApp /\ [][NextApp]_vars

----------------------------------------------------------------------------
(* The video store: generate and delete requests served one at a time *)

\* the request that is served
StoreReq == "r1"

\* the bodies of the generate requests
StoreBodies == {b \in AppBodies : b.json /\ strip(b.prompt) # ""
                                    /\ b.input_image # "nocomma"}

\* the names asked of DELETE /api/videos/<name>
DeleteNames == {"a.mp4", "b.mp4", "video_0.mp4", "ghost.mp4", METADATA_FILE}

\* no request is being served
Idle == \A r \in Reqs : a_pc[r] \in {"off", "idle", "done"}

\* the next POST /api/generate arrives
gen_accept ==
    /\ Idle
    /\ \E b \in StoreBodies : a_req' = [a_req EXCEPT ![StoreReq] = b]
    /\ a_pc' = [a_pc EXCEPT ![StoreReq] = "start"]
    /\ a_name' = [a_name EXCEPT ![StoreReq] = NONE]
    /\ a_image_path' = [a_image_path EXCEPT ![StoreReq] = NONE]
    /\ a_handle' = [a_handle EXCEPT ![StoreReq] = NONE]
    /\ a_calls' = [a_calls EXCEPT ![StoreReq] = <<>>]
    /\ a_extracted' = [a_extracted EXCEPT ![StoreReq] = NOTRUN]
    /\ a_ret' = [a_ret EXCEPT ![StoreReq] = NOTRUN]
    /\ a_resp' = [a_resp EXCEPT ![StoreReq] = NoResponse]
    /\ a_meta' = [a_meta EXCEPT ![StoreReq] = EmptyDict]
    /\ UNCHANGED <<files, metadata_file, now, scriptVars, normVars, classVars,
                   extractVars, storeVars>>

\* delete_video, lines 281-295: the test of line 285, the unlink of line 287,
\* then load_metadata on what is left and save_metadata when the name was a key
delete_video(name) ==
    /\ Idle
    /\ IF ~Exists(files, name)
       THEN /\ d_resp' = DeleteResponse(404, name, 1 - d_resp.n)
            /\ UNCHANGED <<files, metadata_file>>
       ELSE LET left == Unlink(files, name)
                metadata == IF Exists(left, METADATA_FILE)
                            THEN metadata_file ELSE EmptyDict
            IN  /\ d_resp' = DeleteResponse(200, name, 1 - d_resp.n)
                /\ IF name \in DOMAIN metadata
                   THEN /\ metadata_file' = DictDel(metadata, name)
                        /\ files' = WriteFile(left, METADATA_FILE, "json")
                   ELSE /\ metadata_file' = metadata
                        /\ files' = left
    /\ UNCHANGED <<a_pc, a_req, a_name, a_image_path, a_handle, a_calls, a_extracted,
                   a_ret, a_resp, a_meta, now, scriptVars, normVars, classVars,
                   extractVars>>

InitStore ==
    /\ request = CHOOSE r \in Requests : TRUE
    /\ pc = "off"
    /\ video_bytes = NONE
    /\ video_obj = NoObj
    /\ ret = <<NOTRUN, NOTRUN, NOTRUN>>
    /\ fatal = <<FALSE, FALSE, FALSE>>
    /\ calls = <<>>
    /\ out = <<>>
    /\ exit_status = <<>>
    /\ saved = NONE
    /\ now = 0
    /\ poll_pc = "idle"
    /\ timeout_seconds = 0
    /\ poll_interval = 0
    /\ deadline = 0
    /\ hist = <<>>
    /\ poll_ret = NONE
    /\ status_url = NONE
    /\ AppOff
    /\ NormOff
    /\ ClassOff
    /\ ExtractOff
    /\ StoreOff

NextStore ==
    \/ gen_accept
    \/ gen_start(StoreReq)
    \/ gen_save_image(StoreReq)
    \/ gen_sdk_call(StoreReq)
    \/ gen_sdk_retry(StoreReq)
    \/ gen_write(StoreReq)
    \/ load_metadata(StoreReq)
    \/ save_metadata(StoreReq)
    \/ gen_cleanup(StoreReq)
    \/ gen_unlink(StoreReq)
    \/ \E name \in DeleteNames : delete_video(name)

SpecStore == InitStore /\ [][NextStore]_vars

----------------------------------------------------------------------------
(* The parameter normalizer on its own, for every duration and resolution *)

\* durations up to this value are handed to bucket_seconds
MaxDuration == 13

\* the durations a caller can hand over: None, or an integer
Durations == {<<>>} \cup {<<d>> : d \in -2..MaxDuration}

\* texts int() reads as an integer, each with the integer it denotes
IntTexts ==
    { [text |-> <<"0">>, val |-> 0],
      [text |-> <<"7", "2", "0">>, val |-> 720],
      [text |-> <<"1", "2", "8", "0">>, val |-> 1280],
      [text |-> <<"-", "5">>, val |-> -5],
      [text |-> <<" ", "3", "6", "0">>, val |-> 360],
      [text |-> <<"+", "7", "2", "0", " ">>, val |-> 720],
      [text |-> <<"1", "_", "0">>, val |-> 10],
      [text |-> <<"1", "7", "9", "2">>, val |-> 1792],
      [text |-> <<"1", "0", "2", "4">>, val |-> 1024] }

\* texts for which int() raises ValueError
NonIntTexts ==
    { <<>>, <<"a">>, <<"7", ".", "5">>, <<"_", "1">>, <<"7", " ", "2">>, <<"-">> }

PartTexts == {t.text : t \in IntTexts} \cup NonIntTexts

\* the separator as a client may write it
Separators == {"x", "X"}

\* the resolutions a caller can hand over: something that is not a string,
\* a text without separator, width and height around a separator, and a text
\* with a third part
Resolutions ==
    {NotAString}
    \cup {<<>>, <<"7", "2", "0">>, <<"7", "2", "0", "p">>}
    \cup {a \o <<sep>> \o b : a \in PartTexts, b \in PartTexts, sep \in Separators}
    \cup {<<"1", "x", "2", "x", "3">>}

\* script lines 91-92 (and 110-111, 205, 211): the two parameters are normalized
norm_script ==
    /\ n_pc = "start"
    /\ n_seconds' = bucket_seconds(n_duration)
    /\ n_size' = parse_resolution_to_size(n_resolution)
    /\ n_pc' = "script"
    /\ UNCHANGED <<n_duration, n_resolution, appVars, scriptVars, now, classVars, extractVars, storeVars>>

\* app.py lines 103-104: the two parameters are normalized
norm_app ==
    /\ n_pc = "start"
    /\ n_seconds' = app_bucket_seconds(n_duration)
    /\ n_size' = app_parse_resolution_to_size(n_resolution)
    /\ n_pc' = "app"
    /\ UNCHANGED <<n_duration, n_resolution, appVars, scriptVars, now, classVars, extractVars, storeVars>>

\* the integer a result of bucket_seconds denotes, as int() reads it
SecondsValue(seconds) ==
    CASE seconds = "4" -> 4 [] seconds = "8" -> 8 [] seconds = "12" -> 12

\* the characters of a result of parse_resolution_to_size; a size that is
\* none of the allowed ones counts as the empty text
SizeChars(size) ==
    CASE size = "1280x720" -> <<"1", "2", "8", "0", "x", "7", "2", "0">>
      [] size = "720x1280" -> <<"7", "2", "0", "x", "1", "2", "8", "0">>
      [] size = "1792x1024" -> <<"1", "7", "9", "2", "x", "1", "0", "2", "4">>
      [] size = "1024x1792" -> <<"1", "0", "2", "4", "x", "1", "7", "9", "2">>
      [] OTHER -> <<>>

\* bucket_seconds and parse_resolution_to_size of the script applied to
\* their own results
renorm_script ==
    /\ n_pc = "script"
    /\ \E d \in {<<SecondsValue(n_seconds)>>}, r \in {SizeChars(n_size)} :
          /\ n_duration' = d
          /\ n_resolution' = r
          /\ n_seconds' = bucket_seconds(d)
          /\ n_size' = parse_resolution_to_size(r)
    /\ n_pc' = "script_again"
    /\ UNCHANGED <<appVars, scriptVars, now, classVars, extractVars, storeVars>>

\* the same with the functions of app.py (lines 53-82)
renorm_app ==
    /\ n_pc = "app"
    /\ \E d \in {<<SecondsValue(n_seconds)>>}, r \in {SizeChars(n_size)} :
          /\ n_duration' = d
          /\ n_resolution' = r
          /\ n_seconds' = app_bucket_seconds(d)
          /\ n_size' = app_parse_resolution_to_size(r)
    /\ n_pc' = "app_again"
    /\ UNCHANGED <<appVars, scriptVars, now, classVars, extractVars, storeVars>>

InitNorm ==
    /\ request = CHOOSE r \in Requests : TRUE
    /\ pc = "off"
    /\ video_bytes = NONE
    /\ video_obj = NoObj
    /\ ret = <<NOTRUN, NOTRUN, NOTRUN>>
    /\ fatal = <<FALSE, FALSE, FALSE>>
    /\ calls = <<>>
    /\ out = <<>>
    /\ exit_status = <<>>
    /\ saved = NONE
    /\ now = 0
    /\ poll_pc = "idle"
    /\ timeout_seconds = 0
    /\ poll_interval = 0
    /\ deadline = 0
    /\ hist = <<>>
    /\ poll_ret = NONE
    /\ status_url = NONE
    /\ AppOff
    /\ n_pc = "start"
    /\ n_duration \in Durations
    /\ n_resolution \in Resolutions
    /\ n_seconds = NONE
    /\ n_size = NONE
    /\ ClassOff
    /\ ExtractOff
    /\ StoreOff

NextNorm ==
    \/ norm_script
    \/ norm_app
    \/ renorm_script
    \/ renorm_app

SpecNorm == InitNorm /\ [][NextNorm]_vars

----------------------------------------------------------------------------
(* The classification of a failure on its own, in the SDK strategy and in *)
(* the legacy strategy                                                     *)

\* HTTP status codes of a failed call; 0: the failure carries no status
\* (a connection error)
FailureCodes == {0, 400, 403, 500}

\* the text of an SDK exception for an error status begins with
\* "Error code: <status>", so a 403 always shows in the text
SdkFailures(code) == {o \in SdkRaises : code = 403 => o.has403}

\* the bodies an error response of the create endpoint can carry
LegacyErrorData ==
    {d \in LegacyData : d.kind # "dict" \/ d.error # ABSENT
                          \/ (d.video_url = ABSENT /\ d.url = ABSENT
                              /\ StatusUrlOf(d) = NONE)}

\* try_sdk_generate lines 100-107: the handler of create_and_poll
classify_sdk ==
    /\ c_pc = "start"
    /\ c_fatal' = IsVerificationError(c_exc)
    /\ c_pc' = "sdk"
    /\ UNCHANGED <<c_code, c_exc, c_data, appVars, scriptVars, now, normVars, extractVars, storeVars>>

\* http_fallback_generate lines 221-232: a create response of status >= 400;
\* "legacy_raised": the test of line 228 raises on a message that is no string
classify_legacy ==
    /\ c_pc = "start"
    /\ c_code >= 400
    /\ \E c \in {LegacyClassify(c_code, c_data)} :
          /\ c_fatal' = (c = "fatal")
          /\ c_pc' = IF c = "crash" THEN "legacy_raised" ELSE "legacy"
    /\ UNCHANGED <<c_code, c_exc, c_data, appVars, scriptVars, now, normVars, extractVars, storeVars>>

InitClassify ==
    /\ request = CHOOSE r \in Requests : TRUE
    /\ pc = "off"
    /\ video_bytes = NONE
    /\ video_obj = NoObj
    /\ ret = <<NOTRUN, NOTRUN, NOTRUN>>
    /\ fatal = <<FALSE, FALSE, FALSE>>
    /\ calls = <<>>
    /\ out = <<>>
    /\ exit_status = <<>>
    /\ saved = NONE
    /\ now = 0
    /\ poll_pc = "idle"
    /\ timeout_seconds = 0
    /\ poll_interval = 0
    /\ deadline = 0
    /\ hist = <<>>
    /\ poll_ret = NONE
    /\ status_url = NONE
    /\ AppOff
    /\ NormOff
    /\ c_pc = "start"
    /\ c_code \in FailureCodes
    /\ c_exc \in SdkFailures(c_code)
    /\ c_data \in LegacyErrorData
    /\ c_fatal = FALSE
    /\ ExtractOff
    /\ StoreOff

NextClassify ==
    \/ classify_sdk
    \/ classify_legacy

SpecClassify == InitClassify /\ [][NextClassify]_vars

----------------------------------------------------------------------------
(* The extraction of the bytes from a provider result on its own, in each *)
(* strategy of the script and in generate_video_sdk of app.py             *)

\* what download_content can answer when client.videos has it
Downloads ==
    [has_download : {FALSE}, download : {NoExtractInput.download}]
        \cup [has_download : {TRUE}, download : DownloadOutcome]

SdkInputs(strategy) ==
    {[NoExtractInput EXCEPT !.strategy = strategy, !.obj = o,
                            !.has_download = d.has_download, !.download = d.download,
                            !.get = g] : o \in VideoObj, d \in Downloads, g \in GetOutcome}

ResponsesInputs ==
    {[NoExtractInput EXCEPT !.strategy = "responses"]}
        \cup {[NoExtractInput EXCEPT !.strategy = "responses", !.json = TRUE,
                                     !.rdata = rd, !.get = g] :
                 rd \in {NotDict} \cup [dict : {TRUE}, parts : PartSeqs],
                 g \in GetOutcome}

LegacyInputs ==
    {[NoExtractInput EXCEPT !.strategy = "legacy", !.ldata = d, !.polled = u, !.get = g] :
        d \in {e \in LegacyData : e.error = ABSENT}, u \in {NONE, "u1"}, g \in GetOutcome}

\* the created job and the client met by the create-then-poll fallback
ObtainInputs ==
    {[NoExtractInput EXCEPT !.strategy = "sdk_obtain", !.obj = o, !.has_poll = h] :
        o \in VideoObj, h \in BOOLEAN}

ExtractInputs ==
    SdkInputs("sdk") \cup SdkInputs("app") \cup ResponsesInputs \cup LegacyInputs
        \cup ObtainInputs

\* the answers SdkExtract and AppExtract consume
ExtractEnvOf(in) ==
    [has_download |-> in.has_download, download |-> in.download, get |-> in.get]

\* try_sdk_generate lines 127-158
extract_sdk ==
    /\ x_pc = "start"
    /\ x_in.strategy = "sdk"
    /\ \E r \in {SdkExtract(x_in.obj, ExtractEnvOf(x_in))} :
          /\ x_ret' = r.ret
          /\ x_calls' = r.calls
    /\ x_pc' = "sdk"
    /\ UNCHANGED <<x_in, appVars, scriptVars, now, normVars, classVars, storeVars>>

\* try_sdk_generate lines 100-125: create_and_poll raised an error that is
\* not a verification error, create returns the job x_in.obj
obtain_sdk ==
    /\ x_pc = "start"
    /\ x_in.strategy = "sdk_obtain"
    /\ \E args \in {SdkArgs(request)} :
       \E r \in {SdkObtain(args,
                    [sdk |-> "ok",
                     cap |-> CHOOSE o \in SdkRaises : ~IsVerificationError(o),
                     create |-> [raised |-> FALSE, verified |-> FALSE,
                                 has403 |-> FALSE, obj |-> x_in.obj],
                     has_poll |-> x_in.has_poll,
                     poll |-> CHOOSE o \in SdkReturns : TRUE])} :
          x_calls' = r.calls
    /\ x_pc' = "sdk_obtained"
    /\ UNCHANGED <<x_in, x_ret, appVars, scriptVars, now, normVars, classVars, storeVars>>

\* generate_video_sdk of app.py, lines 134-163
extract_app ==
    /\ x_pc = "start"
    /\ x_in.strategy = "app"
    /\ x_ret' = ReturnOf(AppExtract(x_in.obj, ExtractEnvOf(x_in)))
    /\ x_pc' = "app"
    /\ UNCHANGED <<x_in, x_calls, appVars, scriptVars, now, normVars, classVars, storeVars>>

\* responses_http_generate lines 309-339, the create call answered 200
extract_responses ==
    /\ x_pc = "start"
    /\ x_in.strategy = "responses"
    /\ \E args \in {ResponsesArgs(request)} :
       \E r \in {responses_http_generate(args,
                    [post |-> [kind |-> "resp", code |-> 200, json |-> x_in.json],
                     data |-> x_in.rdata, get |-> x_in.get])} :
          /\ x_ret' = r.ret
          /\ x_calls' = r.calls
    /\ x_pc' = "responses"
    /\ UNCHANGED <<x_in, appVars, scriptVars, now, normVars, classVars, storeVars>>

\* http_fallback_generate lines 214-263, the create call answered 200;
\* http_poll is taken by what it returned
extract_legacy ==
    /\ x_pc = "start"
    /\ x_in.strategy = "legacy"
    /\ \E args \in {LegacyArgs(request)} :
       \E r \in {LegacyCreate(args, [post |-> [kind |-> "resp", code |-> 200],
                                     data |-> x_in.ldata, get |-> x_in.get])} :
          IF r.ret = "Poll"
          THEN \E a \in {LegacyAfterPoll(x_in.polled, x_in.get)} :
                  /\ x_ret' = a.ret
                  /\ x_calls' = r.calls
                                   \o <<Call("http_poll", [url |-> r.status_url])>>
                                   \o a.calls
          ELSE /\ x_ret' = r.ret
               /\ x_calls' = r.calls
    /\ x_pc' = "legacy"
    /\ UNCHANGED <<x_in, appVars, scriptVars, now, normVars, classVars, storeVars>>

InitExtract ==
    /\ request = CHOOSE r \in Requests : TRUE
    /\ pc = "off"
    /\ video_bytes = NONE
    /\ video_obj = NoObj
    /\ ret = <<NOTRUN, NOTRUN, NOTRUN>>
    /\ fatal = <<FALSE, FALSE, FALSE>>
    /\ calls = <<>>
    /\ out = <<>>
    /\ exit_status = <<>>
    /\ saved = NONE
    /\ now = 0
    /\ poll_pc = "idle"
    /\ timeout_seconds = 0
    /\ poll_interval = 0
    /\ deadline = 0
    /\ hist = <<>>
    /\ poll_ret = NONE
    /\ status_url = NONE
    /\ AppOff
    /\ NormOff
    /\ ClassOff
    /\ StoreOff
    /\ x_pc = "start"
    /\ x_in \in ExtractInputs
    /\ x_ret = NOTRUN
    /\ x_calls = <<>>

NextExtract ==
    \/ obtain_sdk
    \/ extract_sdk
    \/ extract_app
    \/ extract_responses
    \/ extract_legacy

SpecExtract == InitExtract /\ [][NextExtract]_vars

----------------------------------------------------------------------------
(* Properties of the strategy chain of main *)

Done == pc = "done"

\* strategy i was attempted: it returned or raised, or (legacy) is polling
Attempted(i) == ret[i] # NOTRUN \/ (i = LEGACY /\ pc = "legacy_poll")

\* strategy i ended in a failure that is not Fatal: it returned None without
\* taking the verification branch
Retryable(i) == ret[i] = NONE /\ ~fatal[i]

NonEmptyBytes(b) == b \in Bytes /\ b # ""

\* the calls issued by the strategies after the SDK strategy
LaterCalls == {"responses.post", "legacy.post", "poll.get"}

\* the messages each strategy prints when it fails
Diagnostics(i) ==
    CASE i = SDK -> {"sdk_failed", "verification_required"}
      [] i = RESPONSES -> {"responses_api_error", "responses_unknown_format"}
      [] i = LEGACY -> {"http_create_error", "http_not_json", "http_unknown_format",
                        "polling_error", "job_failed", "poll_timed_out",
                        "verification_required"}

\* C1 (as claimed): once the SDK strategy took the Fatal (verification) branch,
\* neither the responses strategy nor the legacy strategy is invoked and no
\* further provider call is made.
C1_FatalShortCircuit ==
    fatal[SDK] =>
        /\ ret[RESPONSES] = NOTRUN
        /\ ret[LEGACY] = NOTRUN
        /\ \A k \in 1..Len(calls) : calls[k].api \notin LaterCalls

\* C2 (as claimed): the strategies run in the order SDK, responses, legacy; a
\* strategy is attempted only after the one before it ended in a Retryable
\* failure; and after (Retryable, Retryable, bytes) the bytes of the third
\* strategy are what is saved.
C2_StrategyOrdering ==
    /\ Attempted(RESPONSES) => Retryable(SDK)
    /\ Attempted(LEGACY) => Retryable(RESPONSES)
    /\ \A j, k \in 1..Len(calls) :
          (calls[j].api = "legacy.post" /\ calls[k].api = "responses.post") => k < j
    /\ (Done /\ Retryable(SDK) /\ Retryable(RESPONSES) /\ NonEmptyBytes(ret[LEGACY]))
          => saved = ret[LEGACY] /\ exit_status = <<0>>

\* the run ended after every strategy ended in a Retryable failure
Exhausted == Done /\ \A i \in {SDK, RESPONSES, LEGACY} : Retryable(i)

\* C3 (as claimed): when all three strategies ended in Retryable failures the
\* final outcome lists three diagnostics, one for each strategy: the output
\* of the run holds exactly one diagnostic of each strategy.
C3_ExhaustedListsThree ==
    Exhausted => \A i \in {SDK, RESPONSES, LEGACY} :
                    Cardinality({k \in 1..Len(out) : out[k] \in Diagnostics(i)}) = 1

\* the first strategy, in priority order, that returned non-empty bytes
FirstWithBytes(i) ==
    /\ NonEmptyBytes(ret[i])
    /\ \A j \in 1..(i - 1) : ~NonEmptyBytes(ret[j])

\* C4 (as claimed): a strategy that returned an empty bytes value does not
\* stop the chain - the next strategy is still attempted - and what is saved
\* is the bytes of the first strategy that returned non-empty bytes.
C4_EmptyBytesFallThrough ==
    /\ (Done /\ ret[SDK] = "") => Attempted(RESPONSES)
    /\ (Done /\ ret[RESPONSES] = "") => Attempted(LEGACY)
    /\ saved # NONE => \E i \in {SDK, RESPONSES, LEGACY} : FirstWithBytes(i) /\ saved = ret[i]

\* C5 (as claimed, for a run that has its API key): a file is written only if
\* some strategy returned non-empty bytes; a run in which none did ends with
\* exit status 3 and nothing stored.
C5_FailureNeverLooksLikeSuccess ==
    /\ saved # NONE => \E i \in {SDK, RESPONSES, LEGACY} : NonEmptyBytes(ret[i])
    /\ (Done /\ Attempted(SDK) /\ \A i \in {SDK, RESPONSES, LEGACY} : ~NonEmptyBytes(ret[i]))
          => saved = NONE /\ exit_status = <<3>>

\* C6 (as claimed): a failure of the SDK or responses strategy that is not
\* Fatal - an exception of the create call and a body that is no JSON
\* included - is followed by the next strategy, and no run ends with an
\* uncaught exception while a strategy is still untried.
C6_FailuresFallThrough ==
    /\ (Done /\ Retryable(SDK)) => Attempted(RESPONSES)
    /\ (Done /\ ret[RESPONSES] \in {NONE, RAISED}) => Attempted(LEGACY)
    /\ (Done /\ exit_status = <<1>>) => Attempted(LEGACY)

\* the sizes the provider allows (the list `allowed` of
\* parse_resolution_to_size) and the seconds it allows
AllowedSizes == {"1280x720", "720x1280", "1792x1024", "1024x1792"}
AllowedDims == {<<1280, 720>>, <<720, 1280>>, <<1792, 1024>>, <<1024, 1792>>}
AllowedSeconds == {"4", "8", "12"}

\* the create calls of the three strategies
CreateApis == {"sdk.create_and_poll", "sdk.create", "responses.post", "legacy.post"}

\* the parameters of the create call c are normalized: a duration it carries
\* is one of 4, 8, 12 and a size it carries is an allowed one
CarriesNormalized(c) ==
    LET has(rec, key) == key \in DOMAIN rec
    IN  /\ has(c.args, "seconds") => c.args.seconds \in AllowedSeconds
        /\ has(c.args, "size") => c.args.size \in AllowedSizes
        /\ has(c.args, "video") =>
              /\ has(c.args.video, "duration") => c.args.video.duration \in {4, 8, 12}
              /\ (has(c.args.video, "width") \/ has(c.args.video, "height"))
                    => /\ has(c.args.video, "width") /\ has(c.args.video, "height")
                       /\ <<c.args.video.width, c.args.video.height>> \in AllowedDims

\* C14 (as claimed): every create call of every strategy carries only
\* normalized parameters.
C14_OnlyNormalizedSent ==
    \A k \in 1..Len(calls) : calls[k].api \in CreateApis => CarriesNormalized(calls[k])

----------------------------------------------------------------------------
(* Properties of http_poll *)

\* what a status source answered, in the words of the Poller: a 200 answer
\* whose state is a Succeeded synonym, a Failed synonym, or anything else
AnswerOk(h) == h.code = 200 /\ h.state \notin {"raise", "nonjson"}
IsSucceeded(h) == AnswerOk(h) /\ h.state \in {"succeeded", "completed", "done"}
IsFailed(h) == AnswerOk(h) /\ h.state \in {"failed", "error"}
IsPending(h) == AnswerOk(h) /\ ~IsSucceeded(h) /\ ~IsFailed(h)

AllPending == \A k \in 1..Len(hist) : IsPending(hist[k])

\* the mapping of a status string that C11 states
ClaimedOutcome(state) ==
    IF state \in {"succeeded", "completed", "done"} THEN "Succeeded"
    ELSE IF state \in {"failed", "error"} THEN "Failed"
    ELSE "Pending"

\* the status string of a payload: the field status, else (status absent or
\* empty) the field state
StatusString(data) == IF data.status \in {ABSENT, ""} THEN data.state ELSE data.status

\* the position http_poll goes to on a readable payload, in the words of C11
OutcomeOfStep(step) ==
    CASE step.pc = "ret177" -> "Succeeded"
      [] step.pc = "ret180" -> "Failed"
      [] step.pc = "sleep" -> "Pending"
      [] OTHER -> "Stopped"

\* the body of the status request h was read (status below 400, JSON)
BodyRead(h) == h.code < 400 /\ h.state \notin {"raise", "nonjson"}

\* C11: every payload is mapped as claimed - Succeeded exactly for
\* "succeeded", "completed", "done", Failed exactly for "failed", "error",
\* Pending for every other status string, an absent one included - and only
\* Pending makes the loop sleep and poll again: every status request but the
\* last was answered Pending, and the poll sleeps, tests the loop again or has
\* timed out only after a Pending answer.
C11_StatusMapping ==
    /\ \A data \in PollPayload, code \in {c \in PollCodes : c < 400} :
          OutcomeOfStep(PollStep([kind |-> "resp", code |-> code, json |-> TRUE,
                                  data |-> data]))
              = ClaimedOutcome(StatusString(data))
    /\ \A k \in 1..Len(hist) :
          BodyRead(hist[k]) =>
             CASE ClaimedOutcome(hist[k].state) = "Pending" ->
                     k < Len(hist) \/ poll_pc \in {"sleep", "loop", "ret183"}
               [] ClaimedOutcome(hist[k].state) = "Succeeded" ->
                     k = Len(hist) /\ poll_pc = "ret177"
               [] ClaimedOutcome(hist[k].state) = "Failed" ->
                     k = Len(hist) /\ poll_pc = "ret180"
    /\ \A k \in 1..(Len(hist) - 1) :
          BodyRead(hist[k]) /\ ClaimedOutcome(hist[k].state) = "Pending"

\* C11 witness: a status that is no recognised synonym ("SUCCEEDED", then an
\* empty status with no state) made the poll sleep and poll again, and "error"
\* ended it as Failed
C11_Witness ==
    /\ Len(hist) = 3
    /\ hist[1].state = "SUCCEEDED"
    /\ hist[2].state \in {ABSENT, ""}
    /\ hist[3].state = "error"
    /\ poll_pc = "ret180"

\* C12 (as claimed): once a status payload reported a Succeeded synonym,
\* http_poll has returned Completed with the media URL of that payload, the
\* legacy strategy downloads from exactly that URL as its next and last call,
\* and the strategy does not report a failure (None) for the Succeeded job.
C12_SucceededIsCompleted ==
    (hist # <<>> /\ BodyRead(hist[Len(hist)])
                /\ ClaimedOutcome(hist[Len(hist)].state) = "Succeeded")
        => /\ poll_pc = "ret177"
           /\ poll_ret \in Urls
           /\ ret[LEGACY] # NOTRUN
                 => /\ ret[LEGACY] # NONE
                    /\ calls[Len(calls)] = Call("http.get", [url |-> poll_ret])

\* the value the caller of http_poll gets when a status request ends the poll
\* at position p (an error status, or a failed / error state)
StoppedValues(p) == {PollStep(resp).ret : resp \in {q \in PollResponse : PollStep(q).pc = p}}

\* C13 (as claimed): the caller of http_poll can tell the three failures
\* apart: what a timed out poll returns is returned neither by a poll that
\* ended on a failed / error state nor by one stopped by an error status, and
\* what a poll that ended on a failed / error state returns is not returned by
\* one stopped by an error status.
C13_OutcomesDistinct ==
    /\ poll_pc = "ret183"
          => poll_ret \notin StoppedValues("ret180") \cup StoppedValues("ret173")
    /\ poll_pc = "ret180" => poll_ret \notin StoppedValues("ret173")

\* C8: when the status source answers Pending, Pending, Succeeded, http_poll
\* returns through its Succeeded branch (Completed) after exactly 3 status
\* requests and makes no status request after the third.
C8_PendingPendingSucceeded ==
    (Len(hist) >= 3 /\ IsPending(hist[1]) /\ IsPending(hist[2]) /\ IsSucceeded(hist[3]))
        => /\ Len(hist) = 3
           /\ poll_pc = "ret177"
           /\ Cardinality({k \in 1..Len(calls) : calls[k].api = "poll.get"}) = 3

\* C8 witness: the poll returned Completed on its third status request
C8_Witness ==
    /\ poll_pc = "ret177"
    /\ Len(hist) = 3 /\ IsPending(hist[1]) /\ IsPending(hist[2]) /\ IsSucceeded(hist[3])
    /\ hist[3].state = "done"

\* what C9 says of every poll whose answers were all Pending, but for the
\* time of the return
C9_PendingCommon ==
    /\ (PollOver /\ AllPending) => poll_pc = "ret183" /\ poll_ret = NONE
    /\ AllPending => \A k \in 1..Len(hist) : hist[k].start < deadline
    /\ (AllPending /\ timeout_seconds = 0) => hist = <<>>

\* C9 (as claimed): a poll that is only ever answered Pending returns
\* TimedOut, starts no status request at or after the deadline, and returns
\* no later than one poll interval after the deadline.
C9_ReturnsWithinOneInterval ==
    /\ C9_PendingCommon
    /\ (poll_pc = "ret183" /\ AllPending) => now <= deadline + poll_interval

\* C9 (amended): ... and returns no later than one poll interval plus the
\* duration of its last status request after the deadline (at the deadline
\* at the latest when it made no request).
C9_ReturnsWithinIntervalAndRequest ==
    /\ C9_PendingCommon
    /\ (poll_pc = "ret183" /\ AllPending) =>
          IF hist = <<>> THEN now <= deadline
          ELSE now <= deadline + poll_interval + hist[Len(hist)].dur

\* C9 witness: a timed out poll, all answers Pending, that returned later than
\* one poll interval after the deadline
C9_Witness ==
    /\ poll_pc = "ret183"
    /\ AllPending
    /\ Len(hist) >= 2
    /\ now > deadline + poll_interval

\* C10 (as claimed): a status response that is not 2xx ends the poll: it is
\* the last status request, and http_poll returns None after it.
C10_Non2xxStops ==
    \A k \in 1..Len(hist) :
        (hist[k].state # "raise" /\ ~(hist[k].code >= 200 /\ hist[k].code <= 299))
            => k = Len(hist) /\ poll_pc = "ret173" /\ poll_ret = NONE

\* C10 (amended): a status response with a status code of 400 or more ends
\* the poll: it is the last status request, and http_poll returns None after
\* it, whatever time is left.
C10_ErrorStatusStops ==
    \A k \in 1..Len(hist) :
        hist[k].code >= 400 => k = Len(hist) /\ poll_pc = "ret173" /\ poll_ret = NONE

\* C10 witness: the poll stopped on an error status with time left
C10_Witness ==
    /\ poll_pc = "ret173"
    /\ Len(hist) >= 2
    /\ hist[Len(hist)].code = 404
    /\ now < deadline

----------------------------------------------------------------------------
(* Properties of generate_video_sdk of the web application *)

\* the request is past generate_video_sdk
SdkOver(r) == a_ret[r] # NOTRUN

\* the create_and_poll call c carried the reference image
Attached(c) == c.kwargs.input_reference # NONE

\* C7: when the create_and_poll call with the image attached is rejected,
\* create_and_poll is called exactly once more, without the image and with the
\* other arguments unchanged, before generate_video_sdk has any result; when
\* that second call returns, the extraction runs on what it returned and its
\* bytes are the result of generate_video_sdk.  A call without the image is
\* never followed by another call, and no request has more than two calls.
C7_ImageRetry ==
    \A r \in Reqs :
        LET cs == a_calls[r]
        IN  /\ Len(cs) <= 2
            /\ (Len(cs) >= 1 /\ ~Attached(cs[1])) => Len(cs) = 1
            /\ (Len(cs) >= 1 /\ Attached(cs[1]) /\ cs[1].outcome = "returned")
                  => Len(cs) = 1
            /\ (Len(cs) = 1 /\ Attached(cs[1]) /\ cs[1].outcome = "raised")
                  => a_pc[r] = "sdk_retry" /\ ~SdkOver(r)
            /\ Len(cs) = 2
                  => /\ Attached(cs[1]) /\ cs[1].outcome = "raised"
                     /\ ~Attached(cs[2])
                     /\ cs[2].kwargs = [cs[1].kwargs EXCEPT !.input_reference = NONE]
                     /\ SdkOver(r)
            /\ (Len(cs) = 2 /\ cs[2].outcome = "returned")
                  => /\ a_extracted[r] # NOTRUN
                     /\ a_ret[r] = ReturnOf(a_extracted[r])

\* C7 witness: the call with the image was rejected, the call without it
\* returned, and the request ended in success with the bytes extracted
C7_Witness ==
    \E r \in Reqs :
        /\ Len(a_calls[r]) = 2
        /\ Attached(a_calls[r][1]) /\ a_calls[r][1].outcome = "raised"
        /\ a_calls[r][2].outcome = "returned"
        /\ a_ret[r] = "vidA"
        /\ a_resp[r].code = 200

----------------------------------------------------------------------------
(* Properties of the parameter normalizer *)

Normalized == n_pc \in {"script", "app"}

\* the members of {4, 8, 12} at the least distance from d
Closest(d) == {m \in {4, 8, 12} : \A k \in {4, 8, 12} : Abs(m - d) <= Abs(k - d)}

\* the smallest number of a non-empty set
Least(S) == CHOOSE m \in S : \A k \in S : m <= k

SizeFor(w, h) == IF h > w THEN "720x1280" ELSE "1280x720"

\* C16: an input that parses as <width>x<height> gives "720x1280" when
\* height > width and "1280x720" when width >= height, for every pair of
\* integers, a width or height of 0 included.
C16_OrientationKept ==
    \A a \in IntTexts, b \in IntTexts, sep \in Separators :
        (Normalized /\ n_resolution = a.text \o <<sep>> \o b.text)
            => n_size = SizeFor(a.val, b.val)

\* an absent input, a text without separator, or a width or height part that
\* is not an integer
Malformed(resolution) ==
    \/ resolution = NotAString
    \/ \A i \in 1..Len(resolution) : resolution[i] \notin Separators
    \/ \E a \in PartTexts, b \in PartTexts, sep \in Separators :
          /\ resolution = a \o <<sep>> \o b
          /\ a \in NonIntTexts \/ b \in NonIntTexts

\* C17: for every malformed or absent input parse_resolution_to_size returns
\* exactly "1280x720"; it returns, no exception escapes.
C17_MalformedGivesDefault ==
    (Normalized /\ Malformed(n_resolution)) => n_size = "1280x720"

C17_Witness ==
    /\ Normalized
    /\ n_resolution = <<"a", "x", "7", "2", "0">>
    /\ n_size = "1280x720"

\* the request has ended with a response
Ended(r) == a_pc[r] = "done"

\* C18: when generate has written the reference image to a temporary file,
\* that file no longer exists once the request has ended, whichever way it
\* ended: success, failed generation, or an exception after the write.
C18_TempImageRemoved ==
    \A r \in Reqs :
        (Ended(r) /\ a_image_path[r] # NONE) => ~Exists(files, a_image_path[r])

\* C19: once two concurrent generate requests with different video names
\* have both returned success, the metadata store has an entry for each of
\* the two names.
C19_NoLostUpdate ==
    (/\ \A r \in Reqs : Ended(r) /\ a_resp[r].code = 200
     /\ a_resp["r1"].name # a_resp["r2"].name)
        => \A r \in Reqs : a_resp[r].name \in DOMAIN metadata_file

----------------------------------------------------------------------------
(* Properties of the classification *)

\* the message of the legacy error response holds the verification indicator
LegacyVerified(data) ==
    data.kind = "dict" /\ data.error = "dict" /\ data.message = "must be verified"

\* C20: a failure is classified Fatal exactly when its message holds
\* "must be verified" or its status code is 403; a message that merely
\* holds the digits 403 under another status code is Retryable.  The rule is
\* the same in the SDK strategy and in the legacy strategy.
C20_FatalIffVerificationOr403 ==
    /\ c_pc = "sdk" => (c_fatal <=> (c_exc.verified \/ c_code = 403))
    /\ c_pc = "legacy" => (c_fatal <=> (LegacyVerified(c_data) \/ c_code = 403))

\* the failure is Fatal by the rule of the classification: the indicator in
\* the message, or status code 403
RuleFatal ==
    \/ c_code = 403
    \/ c_pc = "sdk" /\ c_exc.verified
    \/ c_pc = "legacy" /\ LegacyVerified(c_data)

\* the verification branch prints the remediation guidance (lines 104-106,
\* 229-231); nothing else does
GuidanceShown == c_fatal

\* C21: every Fatal failure shows the remediation guidance to the caller, in
\* the SDK strategy and in the legacy strategy, also for a 403 response of
\* the legacy create call whose body is not JSON or has no error object.
C21_FatalShowsGuidance ==
    (c_pc \in {"sdk", "legacy"} /\ RuleFatal) => GuidanceShown

----------------------------------------------------------------------------
(* Properties of the extraction *)

Extracted == x_pc \in {"sdk", "app", "responses", "legacy"}

\* a media URL was fetched
Fetched == \E k \in 1..Len(x_calls) : x_calls[k].api = "http.get"

\* C22: a non-2xx response to the download of a media URL makes the strategy
\* return a failure value, in each of the three strategies of the script; no
\* exception leaves the strategy.
C22_DownloadErrorIsRetryable ==
    (x_pc \in {"sdk", "responses", "legacy"} /\ Fetched /\ x_in.get.kind = "http_error")
        => x_ret = NONE

\* the content parts of the responses body that are videos
VideoParts(in) ==
    IF in.json /\ in.rdata.dict
    THEN {in.rdata.parts[k] : k \in {j \in 1..Len(in.rdata.parts) :
                                        in.rdata.parts[j].type = "output_video"}}
    ELSE {}

\* the provider result has an id and the client can download by id
Downloadable(in) == in.obj.id /\ in.has_download

\* the provider result has nothing to extract from: no downloadable id, no
\* URL field, no inline base64 payload
Unrecognized(in) ==
    CASE in.strategy \in {"sdk", "app"} ->
            ~Downloadable(in) /\ in.obj.url \notin Urls /\ in.obj.video_url \notin Urls
      [] in.strategy = "responses" ->
            \A p \in VideoParts(in) : p.url \notin Urls /\ p.b64 = ABSENT
      [] in.strategy = "legacy" ->
            \/ in.ldata.kind # "dict"
            \/ /\ in.ldata.video_url = ABSENT
               /\ StatusUrlOf(in.ldata) = NONE
               /\ in.ldata.url \notin Urls

\* C23: in each strategy a successful provider response without
\* downloadable id, URL field and inline base64 payload makes the strategy
\* return the failure value None; no exception is raised for it.
C23_UnrecognizedShapeIsRetryable ==
    (Extracted /\ Unrecognized(x_in)) => x_ret = NONE

\* download_content answered with bytes, a readable stream or a wrapper
DownloadYields(in) ==
    Downloadable(in) /\ in.download.kind \in {"bytes", "readable", "wrapped"}

\* C24: first match wins.  With an id, the download capability and a URL
\* field the bytes are those of the download and no URL is fetched; a URL
\* (url, then video_url) is fetched only when the download gave no bytes;
\* the inline base64 payload is used only when no URL is present.
C24_ExtractionPriority ==
    /\ (x_pc = "sdk" /\ DownloadYields(x_in))
          => x_ret = x_in.download.data /\ ~Fetched
    /\ (x_pc = "sdk" /\ Fetched)
          => /\ ~DownloadYields(x_in)
             /\ x_calls[Len(x_calls)].args.url =
                   IF x_in.obj.url \in Urls THEN x_in.obj.url ELSE x_in.obj.video_url
    /\ (x_pc = "responses" /\ ~Fetched /\ x_ret \in Bytes)
          => \A p \in VideoParts(x_in) : p.url \notin Urls

----------------------------------------------------------------------------
(* Properties of the run as a whole *)

\* strategy i has been entered and has not returned yet
InFlight(i) ==
    \/ i = SDK /\ pc = "sdk_extract"
    \/ i = LEGACY /\ pc = "legacy_poll"

\* the number of calls of an api
Invocations(api) == Cardinality({k \in 1..Len(calls) : calls[k].api = api})

\* the call that opens each strategy
OpeningCall(i) ==
    CASE i = SDK -> "sdk.create_and_poll"
      [] i = RESPONSES -> "responses.post"
      [] i = LEGACY -> "legacy.post"

\* C25: a request is processed sequentially: while a strategy is in flight
\* every earlier strategy has returned and no later one has begun; each of
\* the three strategies is invoked at most once; no strategy is invoked
\* after a strategy returned bytes.
C25_Sequential ==
    /\ \A i, j \in {SDK, RESPONSES, LEGACY} :
          (InFlight(i) /\ j # i)
              => /\ ~InFlight(j)
                 /\ j < i => ret[j] # NOTRUN
                 /\ j > i => ret[j] = NOTRUN /\ Invocations(OpeningCall(j)) = 0
    /\ \A i \in {SDK, RESPONSES, LEGACY} : Invocations(OpeningCall(i)) <= 1
    /\ \A i, j \in {SDK, RESPONSES, LEGACY} :
          (i < j /\ ret[i] \in Bytes)
              => ~Attempted(j) /\ Invocations(OpeningCall(j)) = 0

C25_Witness ==
    /\ Done
    /\ ret[SDK] = NONE
    /\ NonEmptyBytes(ret[RESPONSES])
    /\ ret[LEGACY] = NOTRUN
    /\ saved = ret[RESPONSES]

\* the terminal states of a request
EndSuccess == exit_status = <<0>> /\ NonEmptyBytes(saved)
EndFatal ==
    /\ exit_status = <<3>>
    /\ \E i \in {SDK, RESPONSES, LEGACY} :
          fatal[i] /\ \A j \in {SDK, RESPONSES, LEGACY} : j > i => ret[j] = NOTRUN
EndExhausted == exit_status = <<3>> /\ \A i \in {SDK, RESPONSES, LEGACY} : Retryable(i)

\* the run got past load_api_key: the strategy chain was entered
ChainEntered == pc \notin {"start", "off"} /\ exit_status # <<2>>

\* C26: a request that has ended is in exactly one of the terminal states
\* Success(bytes), Fatal and ExhaustedFailure, and ExhaustedFailure (the
\* generic failure, exit status 3 without a Fatal strategy) only after the
\* last strategy ended Retryable.
C26_OneTerminalState ==
    (Done /\ ChainEntered) =>
        /\ Cardinality({t \in {"success", "fatal", "exhausted"} :
                           \/ t = "success" /\ EndSuccess
                           \/ t = "fatal" /\ EndFatal
                           \/ t = "exhausted" /\ EndExhausted}) = 1
        /\ (exit_status = <<3>> /\ ~EndFatal) => Retryable(LEGACY)

\* the prompt of a request to the endpoint is empty or only whitespace
EmptyPrompt(r) == a_pc[r] # "off" /\ a_req[r].json /\ strip(a_req[r].prompt) = ""

\* C27: a request with an empty prompt gets a caller-facing error and causes
\* no provider call, no reference-image file, no video file and no metadata,
\* in the endpoint of app.py and in the script.
C27_EmptyPromptRejected ==
    /\ \A r \in Reqs :
          EmptyPrompt(r)
              => /\ a_calls[r] = <<>> /\ a_ret[r] = NOTRUN
                 /\ a_image_path[r] = NONE /\ a_name[r] = NONE
                 /\ Ended(r) => a_resp[r] = Response(400, "prompt_required", NONE)
    /\ (pc # "off" /\ request.prompt = "")
          => /\ calls = <<>> /\ saved = NONE
             /\ Done => exit_status \notin {<<0>>, <<3>>}

----------------------------------------------------------------------------
(* Properties of the normalized values *)

\* the functions have been applied, once or twice
NormalizedAtAll == n_pc \in {"script", "app", "script_again", "app_again"}

\* C28: for every integer or absent duration bucket_seconds returns one of
\* "4", "8", "12", and for every string or absent resolution
\* parse_resolution_to_size returns one of the four allowed sizes.
C28_ResultsAllowed ==
    NormalizedAtAll => n_seconds \in AllowedSeconds /\ n_size \in AllowedSizes

C28_Witness ==
    /\ Normalized
    /\ n_duration = <<-2>>
    /\ n_resolution = <<"-", "5", "x", "1", "7", "9", "2">>
    /\ n_seconds = "4"
    /\ n_size = "720x1280"

\* the functions were applied to their own results
NormalizedAgain == n_pc \in {"script_again", "app_again"}

\* C29: normalizing normalized parameters changes nothing: bucket_seconds of
\* the value of its result is that result, parse_resolution_to_size of its
\* result is that result.
C29_Idempotent ==
    NormalizedAgain
        => /\ n_seconds = ToString(n_duration[1])
           /\ SizeChars(n_size) = n_resolution

C29_Witness ==
    /\ NormalizedAgain
    /\ n_duration = <<12>>
    /\ n_seconds = "12"
    /\ n_resolution = SizeChars("720x1280")
    /\ n_size = "720x1280"

----------------------------------------------------------------------------
(* Properties of the legacy routing *)

\* the calls of an api among those the strategy issued
CallsOf(api) == {k \in 1..Len(x_calls) : x_calls[k].api = api}

\* the create response names a status endpoint
HasStatusEndpoint(data) == data.status_url # ABSENT \/ data.poll_url # ABSENT

\* C31: after a successful JSON create response of the legacy strategy,
\* http_poll is invoked exactly when the response has no video_url and has a
\* status_url or poll_url; with a video_url that URL is fetched and no status
\* request is made; the plain url is fetched only when there is neither
\* video_url nor a status endpoint; and when http_poll returns no URL the
\* strategy fails without any download.
C31_LegacyRouting ==
    (x_pc = "legacy" /\ x_in.ldata.kind = "dict") =>
        LET data == x_in.ldata
            polled == CallsOf("http_poll") # {}
            fetches == {x_calls[k].args.url : k \in CallsOf("http.get")}
        IN  /\ polled <=> (data.video_url = ABSENT /\ HasStatusEndpoint(data))
            /\ polled => x_calls[2].args.url = StatusUrlOf(data)
            /\ data.video_url \in Urls => fetches = {data.video_url} /\ ~polled
            /\ (~polled /\ data.video_url = ABSENT /\ fetches # {})
                  => fetches = {data.url} /\ ~HasStatusEndpoint(data)
            /\ (polled /\ x_in.polled = NONE) => x_ret = NONE /\ fetches = {}
            /\ (polled /\ x_in.polled # NONE) => fetches = {x_in.polled}

C31_Witness ==
    /\ x_pc = "legacy"
    /\ x_in.ldata.kind = "dict"
    /\ x_in.ldata.video_url = ABSENT
    /\ x_in.ldata.poll_url = "s2"
    /\ x_in.ldata.url = "u2"
    /\ x_in.polled = NONE
    /\ CallsOf("http_poll") # {}
    /\ x_ret = NONE

----------------------------------------------------------------------------
(* Properties of the create-then-poll fallback of the SDK strategy *)

\* C32: when create_and_poll failed with an error that is not Fatal and
\* create succeeded, the job is polled exactly when it has an id and the
\* client can poll, for an attribute-style object as for a dict; the created
\* object is used unpolled only without id or without poll capability.
C32_CreatedJobIsPolled ==
    x_pc = "sdk_obtained"
        => /\ CallsOf("sdk.create") # {}
           /\ CallsOf("sdk.poll") # {} <=> (x_in.obj.id /\ x_in.has_poll)

----------------------------------------------------------------------------
(* Properties of the reference image in app.py *)

\* C33: the file handle of the reference image that generate_video_sdk
\* opened is closed when the function has returned, on every path: the call
\* with the image returned, the call with the image was rejected and the
\* retry ran, both calls failed.
C33_HandleClosed ==
    \A r \in Reqs : (SdkOver(r) /\ a_handle[r] # NONE) => a_handle[r] = "closed"

\* C34: the reference images of two concurrent requests do not interfere:
\* while a request that saved a reference image waits for its provider call,
\* its temporary file exists and holds the image of that request, and every
\* provider call of a request that carries an image carries the image that
\* request supplied.
C34_ImagesDoNotInterfere ==
    \A r \in Reqs :
        /\ (a_pc[r] = "sdk" /\ a_image_path[r] # NONE)
              => /\ Exists(files, a_image_path[r])
                 /\ files[a_image_path[r]] = ImageBytes(a_req[r].input_image)
        /\ \A k \in 1..Len(a_calls[r]) :
              Attached(a_calls[r][k])
                 => a_calls[r][k].kwargs.input_reference
                       = ImageBytes(a_req[r].input_image)

----------------------------------------------------------------------------
(* Properties of the video store *)

\* a DELETE request was answered in this step
Deleted == d_resp'.n # d_resp.n

\* C35: delete_video of a name whose file exists answers 200, removes that
\* file and the metadata entry of that name and leaves every other file and
\* metadata entry as it was; delete_video of a name whose file does not exist
\* answers 404 and changes neither the files nor the metadata; and whenever no
\* request is being served, every metadata key names an existing file.
C35_DeleteFrame ==
    /\ [][Deleted =>
            IF Exists(files, d_resp'.name)
            THEN /\ d_resp'.code = 200
                 /\ files' = Unlink(files, d_resp'.name)
                 /\ metadata_file' = DictDel(metadata_file, d_resp'.name)
            ELSE /\ d_resp'.code = 404
                 /\ files' = files
                 /\ metadata_file' = metadata_file]_vars
    /\ [](Idle => DOMAIN metadata_file \subseteq DOMAIN files)

----------------------------------------------------------------------------
(* The two copies of the normalizer and of the extraction *)

\* C36: for every duration and every resolution, bucket_seconds and
\* parse_resolution_to_size of app.py return what bucket_seconds and
\* parse_resolution_to_size of the script return for the same input.
C36_NormalizersAgree ==
    /\ n_pc \in {"app", "app_again"}
          => /\ n_seconds = bucket_seconds(n_duration)
             /\ n_size = parse_resolution_to_size(n_resolution)
    /\ n_pc \in {"script", "script_again"}
          => /\ n_seconds = app_bucket_seconds(n_duration)
             /\ n_size = app_parse_resolution_to_size(n_resolution)

\* the app normalized a portrait resolution and a duration nearest to 12
C36_Witness ==
    /\ n_pc = "app"
    /\ n_size = "720x1280"
    /\ n_seconds = "12"
    /\ n_resolution # NotAString

\* C37: for the same video object and the same answers of download_content
\* and of the URL fetch, generate_video_sdk of app.py and try_sdk_generate of
\* the script return the same bytes or both return None; so when
\* download_content raises and the object has a URL field, both go on to
\* fetch that URL.
C37_ExtractionsAgree ==
    /\ x_pc = "app" => x_ret = SdkExtract(x_in.obj, ExtractEnvOf(x_in)).ret
    /\ x_pc = "sdk" => x_ret = ReturnOf(AppExtract(x_in.obj, ExtractEnvOf(x_in)))

====
